---- MODULE Spec2Model ----
(***************************************************************************)
(* Share-link lifecycle and public disclosure gateway of the card vault:   *)
(* the share-folder routes (server/routes/shareFolders) and the share      *)
(* token utilities (server/utils/shareToken); and the encryption of card   *)
(* data at rest: the field cipher (server/utils/encryption), the card      *)
(* routes that store its output (server/routes/cards, server/routes/       *)
(* extract) and the stored-image cipher (server/utils/imageEncryption).    *)
(* Spec and SpecConc are the share folders, SpecCards the card store,      *)
(* SpecRecord and SpecField the field cipher, SpecImage the image cipher.  *)
(*                                                                         *)
(* A Firestore document is a record whose DOMAIN is the set of fields the  *)
(* document has; update() merges fields into the stored document, and an   *)
(* absent field reads as undefined (Get with a default models `x || d`).   *)
(* Every authenticated handler is one read of the folder document          *)
(* (action ...Read, which also runs the handler's checks on the snapshot)  *)
(* followed by one atomic update (action ...Write).  Time is in            *)
(* milliseconds, as in Date.getTime().  The folder's own createdAt,        *)
(* updatedAt, sharedAt and revokedAt server timestamps, and its name and   *)
(* description, are written but read by no handler decision; they are     *)
(* left out of the documents.                                              *)
(***************************************************************************)
EXTENDS Integers, Sequences, FiniteSets, TLC

VARIABLES
  folders,   \* shareFolders collection: folder id -> document, or NoDoc
  cards,     \* cards collection: card id -> document, or NoDoc
  now,       \* wall clock (new Date(), serverTimestamp()), in ms
  nextToken, \* source of generateShareToken(): the next fresh token
  pc,        \* per request slot: the handler's position
  local,     \* per request slot: the handler's local variables
  resp,      \* per request slot: the last response sent
  issued,    \* history variable: tokens returned by a successful share request
  revoked,   \* history variable: tokens a revoke or a later share took down
  env,       \* process.env as read at start-up: the ENCRYPTION_KEY setting
  bucket,    \* storage bucket: object path -> content, or NoObject
  call       \* a utility function under test: its arguments and its results

vars == <<folders, cards, now, nextToken, pc, local, resp, issued, revoked,
          env, bucket, call>>

----------------------------------------------------------------------------
(* Bounds of the model *)

MaxTokens == 2      \* share tokens generated in one behaviour
MaxTicks == 2       \* clock ticks in one behaviour
StartTime == 1000000000  \* wall clock at Init, ms

(* Program values *)

Null == -1          \* JavaScript null (timestamps and tokens are >= 0)
MsPerHour == 60 * 60 * 1000
MsPerDay == 24 * 60 * 60 * 1000

Procs == {1, 2}     \* request slots: two requests in flight at most
Users == {"u1", "u2"}
Owners == {"u1"}        \* users who create a folder
FolderIds == {"f1"}
CardIds == {"c1", "c2", "c3"}
Tokens == 1 .. MaxTokens
NeverIssued == MaxTokens + 1    \* a token generateShareToken never returns here
NoDoc == [exists |-> FALSE]
NoObject == [exists |-> FALSE]
NoCall == [fn |-> "none"]
ObjectPaths == {"cards/u1/c1.jpg", "cards/u1/c1.jpg.encrypted"}

(* Duration strings are sequences of one-character strings. *)
Never == <<"n", "e", "v", "e", "r">>
Digits == {"0", "1", "2", "3", "4", "5", "6", "7", "8", "9"}
DurationSpecs == {Never, <<"1", "h">>}

----------------------------------------------------------------------------
(* Documents *)

Has(doc, k) == k \in DOMAIN doc

Get(doc, k, default) == IF k \in DOMAIN doc THEN doc[k] ELSE default

\* DocumentReference.update(fields): the given fields replace or are added
\* to the stored document's; all others are kept.
Update(doc, fields) ==
  [k \in (DOMAIN doc) \cup (DOMAIN fields) |->
     IF k \in DOMAIN fields THEN fields[k] ELSE doc[k]]

Includes(seq, x) == \E i \in 1 .. Len(seq) : seq[i] = x

\* a plain push in place of arrayUnion
ArrayPush(seq, x) == Append(seq, x)

\* FieldValue.arrayUnion(x): appended unless already present
ArrayUnion(seq, x) == IF Includes(seq, x) THEN seq ELSE Append(seq, x)

\* FieldValue.arrayRemove(x): every occurrence removed
ArrayRemove(seq, x) == SelectSeq(seq, LAMBDA y : y # x)

----------------------------------------------------------------------------
(* server/utils/shareToken *)

DigitVal(c) ==
  CASE c = "0" -> 0 [] c = "1" -> 1 [] c = "2" -> 2 [] c = "3" -> 3
    [] c = "4" -> 4 [] c = "5" -> 5 [] c = "6" -> 6 [] c = "7" -> 7
    [] c = "8" -> 8 [] c = "9" -> 9

AllDigits(s) == \A i \in 1 .. Len(s) : s[i] \in Digits

RECURSIVE DigitsValue(_)
DigitsValue(s) ==
  IF s = <<>> THEN 0
  ELSE DigitsValue(SubSeq(s, 1, Len(s) - 1)) * 10 + DigitVal(s[Len(s)])

RECURSIVE LeadingDigits(_)
LeadingDigits(s) ==
  IF s = <<>> \/ Head(s) \notin Digits THEN <<>>
  ELSE <<Head(s)>> \o LeadingDigits(Tail(s))

RECURSIVE SkipSpaces(_)
SkipSpaces(s) ==
  IF s # <<>> /\ Head(s) = " " THEN SkipSpaces(Tail(s)) ELSE s

\* parseInt(string): leading white space skipped, an optional sign, then the
\* longest run of decimal digits; NaN when there is no digit.
ParseInt(s) ==
  LET t == SkipSpaces(s)
      signed == t # <<>> /\ Head(t) \in {"-", "+"}
      body == IF signed THEN Tail(t) ELSE t
      d == LeadingDigits(body)
  IN IF d = <<>> THEN [nan |-> TRUE, val |-> 0]
     ELSE [nan |-> FALSE,
           val |-> IF signed /\ Head(t) = "-" THEN 0 - DigitsValue(d)
                   ELSE DigitsValue(d)]

\* duration.match(/^(\d+)X$/) for the unit letter X
UnitMatch(duration, unit) ==
  /\ Len(duration) >= 2
  /\ duration[Len(duration)] = unit
  /\ AllDigits(SubSeq(duration, 1, Len(duration) - 1))

UnitCount(duration) == DigitsValue(SubSeq(duration, 1, Len(duration) - 1))

\* calculateExpiry(duration), with t the value of new Date() / Date.now()
calculateExpiry(duration, t) ==
  IF duration = <<>> \/ duration = Never THEN Null
  ELSE IF UnitMatch(duration, "h") THEN t + UnitCount(duration) * MsPerHour
  ELSE IF UnitMatch(duration, "d") THEN t + UnitCount(duration) * MsPerDay
  ELSE IF ~ParseInt(duration).nan /\ ParseInt(duration).val > t
       THEN ParseInt(duration).val
  ELSE Null

\* mutant of isExpired: expired from the expiry instant on
isExpiredLax(expiresAt, t) == IF expiresAt = Null THEN FALSE ELSE expiresAt <= t

\* isExpired(expiresAt), with t the value of new Date()
isExpired(expiresAt, t) == IF expiresAt = Null THEN FALSE ELSE expiresAt < t

----------------------------------------------------------------------------
(* server/routes/shareFolders: computations of the handlers *)

\* POST /: the document a new folder is stored as
NewFolder(uid, t) ==
  [exists |-> TRUE, userId |-> uid, cardIds |-> <<>>, isPublic |-> FALSE,
   shareToken |-> Null, expiresAt |-> Null]

\* mutant of ShareRejectsEmpty: only an absent member list is rejected
ShareRejectsAbsent(folderData) == ~Has(folderData, "cardIds")

\* POST /:id/share: `!folderData.cardIds || folderData.cardIds.length === 0`
ShareRejectsEmpty(folderData) ==
  ~Has(folderData, "cardIds") \/ Len(folderData.cardIds) = 0

\* POST /:id/share: the entry for the new link
ShareHistoryEntry(shareToken, expiresAt, t) ==
  [shareToken |-> shareToken, expiresAt |-> expiresAt, createdAt |-> t,
   isActive |-> TRUE, revokedAt |-> Null]

\* mutants of MarkPreviousInactive: the map left out; the revocation time not
\* stamped; the revocation time stamped on every entry
MarkPreviousKept(shareHistory, t) == shareHistory

MarkPreviousUnstamped(shareHistory, t) ==
  [i \in 1 .. Len(shareHistory) |-> [shareHistory[i] EXCEPT !.isActive = FALSE]]

MarkPreviousRestamped(shareHistory, t) ==
  [i \in 1 .. Len(shareHistory) |->
     [shareHistory[i] EXCEPT !.isActive = FALSE, !.revokedAt = t]]

\* POST /:id/share: shareHistory.map(entry => ({...entry, isActive: false,
\*   revokedAt: entry.isActive && !entry.revokedAt ? now : entry.revokedAt}))
MarkPreviousInactive(shareHistory, t) ==
  [i \in 1 .. Len(shareHistory) |->
     [shareHistory[i] EXCEPT
        !.isActive = FALSE,
        !.revokedAt = IF shareHistory[i].isActive
                         /\ shareHistory[i].revokedAt = Null
                      THEN t ELSE shareHistory[i].revokedAt]]

\* POST /:id/share: updatedHistory after the push of the new entry
ShareUpdatedHistory(folderData, shareToken, expiresAt, t) ==
  Append(MarkPreviousInactive(Get(folderData, "shareHistory", <<>>), t),
         ShareHistoryEntry(shareToken, expiresAt, t))

\* POST /:id/share: the fields of folderRef.update, the two server
\* timestamps (sharedAt, updatedAt) being filled in when the write lands
ShareFields(folderData, shareToken, expiresAt, t) ==
  [isPublic |-> TRUE, shareToken |-> shareToken, expiresAt |-> expiresAt,
   shareHistory |-> ShareUpdatedHistory(folderData, shareToken, expiresAt, t)]

\* mutant of RevokeRejects: the stored token tested instead of isPublic
RevokeRejectsNoToken(folderData) == folderData.shareToken = Null

\* DELETE /:id/share: `!folderData.isPublic`
RevokeRejects(folderData) == ~folderData.isPublic

\* DELETE /:id/share: shareHistory.map(entry => entry.isActive &&
\*   entry.shareToken === folderData.shareToken
\*     ? {...entry, isActive: false, revokedAt: now} : entry)
RevokeUpdatedHistory(folderData, t) ==
  LET shareHistory == Get(folderData, "shareHistory", <<>>)
  IN [i \in 1 .. Len(shareHistory) |->
        IF shareHistory[i].isActive
           /\ shareHistory[i].shareToken = folderData.shareToken
        THEN [shareHistory[i] EXCEPT !.isActive = FALSE, !.revokedAt = t]
        ELSE shareHistory[i]]

\* mutants of RevokeFields: isPublic left as it is; the mirrored token
\* fields cleared
RevokeFieldsStillPublic(folderData, t) ==
  [shareHistory |-> RevokeUpdatedHistory(folderData, t)]

RevokeFieldsCleared(folderData, t) ==
  [isPublic |-> FALSE, shareToken |-> Null, expiresAt |-> Null,
   shareHistory |-> RevokeUpdatedHistory(folderData, t)]

\* DELETE /:id/share: the fields of folderRef.update, the two server
\* timestamps (revokedAt, updatedAt) being filled in when the write lands
RevokeFields(folderData, t) ==
  [isPublic |-> FALSE, shareHistory |-> RevokeUpdatedHistory(folderData, t)]

----------------------------------------------------------------------------
(* server/utils/encryption: the field cipher *)

(* The JavaScript values a card attribute can hold.  A string is a sequence *)
(* of one-character strings.  A string of base64 segments joined by ':' is *)
(* kept as the sequence of its decoded segments, which is what decrypt     *)
(* works on after split(':') and Buffer.from(.., 'base64').  AES-256-GCM   *)
(* is symbolic: a ciphertext names the key, IV and bytes it was made from, *)
(* a tag names the key, IV and ciphertext it authenticates, and `flip`     *)
(* counts bits altered since.                                              *)
JsNull == [t |-> "null"]
Str(s) == [t |-> "string", s |-> s]
Num(n) == [t |-> "number", n |-> n]
Token(parts) == [t |-> "token", parts |-> parts]
JsTrue == [t |-> "boolean", b |-> TRUE]
JsFalse == [t |-> "boolean", b |-> FALSE]

IsString(v) == v.t \in {"string", "token"}

\* the value in a boolean position: if (v), !v
Truthy(v) ==
  CASE v.t = "null" -> FALSE
    [] v.t = "string" -> v.s # <<>>
    [] v.t = "number" -> v.n # 0
    [] v.t = "token" -> TRUE
    [] v.t = "boolean" -> v.b

Space == " "
LoneSurrogate == "uD800"     \* a UTF-16 code unit that is half of a pair
Replacement == "uFFFD"
Whitespace == {Space}

\* the characters of a string; a token's text is base64 and ':' only
Text(v) == IF v.t = "string" THEN v.s ELSE <<"b64">>

\* String.prototype.trim()
Trim(s) ==
  LET keep == {i \in 1 .. Len(s) : s[i] \notin Whitespace}
  IN IF keep = {} THEN <<>>
     ELSE SubSeq(s, CHOOSE i \in keep : \A j \in keep : i <= j,
                    CHOOSE i \in keep : \A j \in keep : i >= j)

\* String.prototype.split(':')
Split(v) == IF v.t = "token" THEN v.parts ELSE <<v.s>>

\* cipher.update(plaintext, 'utf8', ..): an unpaired surrogate is encoded as
\* U+FFFD
Utf8Encode(s) ==
  [i \in 1 .. Len(s) |-> IF s[i] = LoneSurrogate THEN Replacement ELSE s[i]]

\* decipher.update(.., 'utf8')
Utf8Decode(bytes) == bytes

KeyBytes == 32
AUTH_TAG_LENGTH == 16

\* process.env.ENCRYPTION_KEY: unset, or base64 of `bytes` bytes
NoKey == [set |-> FALSE]
KeySetting(k) == [set |-> TRUE, bytes |-> KeyBytes, key |-> k]
ShortKey == [set |-> TRUE, bytes |-> KeyBytes \div 2, key |-> "k0"]

Raise == [raised |-> TRUE]
Return(v) == [raised |-> FALSE, value |-> v]

getEncryptionKey(e) ==
  IF ~e.ENCRYPTION_KEY.set THEN Raise
  ELSE IF e.ENCRYPTION_KEY.bytes # KeyBytes THEN Raise
  ELSE Return(e.ENCRYPTION_KEY.key)

\* cipher.update + cipher.final
GcmCiphertext(key, iv, bytes) ==
  [key |-> key, iv |-> iv, pt |-> bytes, flip |-> 0]

\* cipher.getAuthTag()
GcmAuthTag(key, iv, ct) ==
  [key |-> key, iv |-> iv, ct |-> ct, flip |-> 0, len |-> AUTH_TAG_LENGTH]

\* tag lengths setAuthTag accepts when createDecipheriv was given no
\* authTagLength
GcmTagLengths == {4, 8, 12, 13, 14, 15, 16}

\* decipher.final(): the tag given to setAuthTag is compared, over its own
\* length, with the tag of what was fed to update
GcmVerifies(key, iv, tag, ct) ==
  /\ tag.len \in GcmTagLengths
  /\ [tag EXCEPT !.len = AUTH_TAG_LENGTH] = GcmAuthTag(key, iv, ct)

\* a variant of encrypt that trims what it encrypts
encryptTrimmed(plaintext, e, iv) ==
  IF ~Truthy(plaintext) THEN Return(JsNull)
  ELSE IF ~IsString(plaintext) THEN Raise
  ELSE IF Trim(Text(plaintext)) = <<>> THEN Return(JsNull)
  ELSE LET key == getEncryptionKey(e)
       IN IF key.raised THEN Raise
          ELSE LET ct == GcmCiphertext(key.value, iv,
                                       Utf8Encode(Trim(Text(plaintext))))
               IN Return(Token(<<iv, GcmAuthTag(key.value, iv, ct), ct>>))

\* encrypt(plaintext); iv is what crypto.randomBytes returns
encrypt(plaintext, e, iv) ==
  IF ~Truthy(plaintext) THEN Return(JsNull)
  ELSE IF ~IsString(plaintext) THEN Raise      \* plaintext.trim is not a function
  ELSE IF Trim(Text(plaintext)) = <<>> THEN Return(JsNull)
  ELSE LET key == getEncryptionKey(e)
       IN IF key.raised THEN Raise
          ELSE LET ct == GcmCiphertext(key.value, iv, Utf8Encode(Text(plaintext)))
               IN Return(Token(<<iv, GcmAuthTag(key.value, iv, ct), ct>>))

\* decrypt(encryptedData)
decrypt(encryptedData, e) ==
  IF ~Truthy(encryptedData) THEN Return(JsNull)
  ELSE LET key == getEncryptionKey(e)
       IN IF key.raised THEN Raise
          ELSE IF ~IsString(encryptedData) THEN Raise   \* no split method
          ELSE LET parts == Split(encryptedData)
               IN IF Len(parts) # 3 THEN Raise
                  ELSE LET iv == parts[1]
                           authTag == parts[2]
                           encrypted == parts[3]
                       IN IF ~GcmVerifies(key.value, iv, authTag, encrypted)
                          THEN Raise
                          ELSE Return(Str(Utf8Decode(encrypted.pt)))

SensitiveFields == <<"cardNumber", "cvv", "expiryDate">>

Sensitive == {SensitiveFields[i] : i \in 1 .. Len(SensitiveFields)}

\* `${field}_encrypted`
FlagOf(field) ==
  CASE field = "cardNumber" -> "cardNumber_encrypted"
    [] field = "cvv" -> "cvv_encrypted"
    [] field = "expiryDate" -> "expiryDate_encrypted"

Flags == {FlagOf(f) : f \in Sensitive}

\* cardData[field] in a boolean position, for an attribute and for a flag
FieldTruthy(cardData, field) == Has(cardData, field) /\ Truthy(cardData[field])
FlagTruthy(cardData, field) ==
  Has(cardData, FlagOf(field)) /\ Truthy(cardData[FlagOf(field)])

\* a stored value that has to be decrypted before use
IsCiphertext(doc, field) == Has(doc, field) /\ doc[field].t = "token"

\* delete obj[k], FieldValue.delete()
Remove(doc, keys) == [k \in (DOMAIN doc) \ keys |-> doc[k]]

\* a variant of encryptCardData that keeps a field as it is when encrypting
\* it fails, and goes on
encryptCardDataBestEffort(cardData, e, ivs) ==
  LET present == {f \in Sensitive : FieldTruthy(cardData, f)}
      done == {f \in present : ~encrypt(cardData[f], e, ivs[f]).raised}
  IN Return(Update(cardData,
       [k \in done \cup {FlagOf(f) : f \in done} |->
          IF k \in Flags THEN JsTrue ELSE encrypt(cardData[k], e, ivs[k]).value]))

\* encryptCardData(cardData); ivs[f] is the IV drawn for field f
encryptCardData(cardData, e, ivs) ==
  LET present == {f \in Sensitive : FieldTruthy(cardData, f)}
  IN IF \E f \in present : encrypt(cardData[f], e, ivs[f]).raised
     THEN Raise        \* 'Failed to encrypt sensitive field'
     ELSE Return(Update(cardData,
            [k \in present \cup {FlagOf(f) : f \in present} |->
               IF k \in Flags THEN JsTrue
               ELSE encrypt(cardData[k], e, ivs[k]).value]))

\* a variant of decryptCardData that gives up on the first failing field
decryptCardDataStrict(cardData, e) ==
  LET flagged == {f \in Sensitive :
                    FieldTruthy(cardData, f) /\ FlagTruthy(cardData, f)}
  IN IF \E f \in flagged : decrypt(cardData[f], e).raised THEN Raise
     ELSE Return(Update(Remove(cardData, {FlagOf(f) : f \in flagged}),
                        [f \in flagged |-> decrypt(cardData[f], e).value]))

\* decryptCardData(cardData)
decryptCardData(cardData, e) ==
  LET flagged == {f \in Sensitive :
                    FieldTruthy(cardData, f) /\ FlagTruthy(cardData, f)}
      failed == {f \in flagged : decrypt(cardData[f], e).raised}
  IN Return(Update(Remove(cardData, {FlagOf(f) : f \in flagged \ failed}),
                   [f \in flagged |->
                      IF f \in failed THEN JsNull
                      ELSE decrypt(cardData[f], e).value]))

\* isEncryptionEnabled(): !!process.env.ENCRYPTION_KEY
isEncryptionEnabled(e) == e.ENCRYPTION_KEY.set

----------------------------------------------------------------------------
(* server/routes/shareFolders: public endpoints *)

\* mutant of FindByToken: the isPublic filter left out
FindByTokenAnyVisibility(fs, token) ==
  {f \in FolderIds : fs[f].exists /\ fs[f].shareToken = token}

\* db.collection('shareFolders').where('shareToken', '==', token)
\*   .where('isPublic', '==', true)
FindByToken(fs, token) ==
  {f \in FolderIds : fs[f].exists /\ fs[f].shareToken = token
                       /\ fs[f].isPublic = TRUE}

NotFound == "Share link not found or has been revoked"
Expired == "Share link has expired"

\* `${API_BASE_URL}/api/sharefolders/public/${token}/image/${doc.id}`
ImageEndpoint(token, c) == <<"/api/sharefolders/public", token, "image", c>>

\* cardData[k] || null
OrNull(cardData, k) == IF FieldTruthy(cardData, k) THEN cardData[k] ELSE JsNull

\* the card object with the stored image reference in every case
PublicCardStoredUrl(cs, c, token, e) ==
  LET cardData == IF isEncryptionEnabled(e) THEN decryptCardData(cs[c], e).value
                  ELSE cs[c]
  IN [id |-> c,
      cardName |-> OrNull(cardData, "cardName"),
      cardNumber |-> OrNull(cardData, "cardNumber"),
      cardHolderName |-> OrNull(cardData, "cardHolderName"),
      expiryDate |-> OrNull(cardData, "expiryDate"),
      cvv |-> OrNull(cardData, "cvv"),
      bank |-> OrNull(cardData, "bank"),
      imageUrl |-> IF Has(cardData, "imageUrl") THEN <<cardData.imageUrl>>
                   ELSE <<>>,
      imageEncrypted |-> Get(cardData, "imageEncrypted", FALSE)]

\* the card object of the public view; an image reference is a sequence:
\* empty for null, the stored path, or the segments of the endpoint URL.
\* type is copied like cardName; no card of the model has one.
PublicCard(cs, c, token, e) ==
  LET cardData == IF isEncryptionEnabled(e) THEN decryptCardData(cs[c], e).value
                  ELSE cs[c]
  IN [id |-> c,
      cardName |-> OrNull(cardData, "cardName"),
      cardNumber |-> OrNull(cardData, "cardNumber"),
      cardHolderName |-> OrNull(cardData, "cardHolderName"),
      expiryDate |-> OrNull(cardData, "expiryDate"),
      cvv |-> OrNull(cardData, "cvv"),
      bank |-> OrNull(cardData, "bank"),
      imageUrl |-> IF ~Has(cardData, "imageUrl") THEN <<>>
                   ELSE IF Get(cardData, "imageEncrypted", FALSE)
                   THEN ImageEndpoint(token, c)
                   ELSE <<cardData.imageUrl>>,
      imageEncrypted |-> Get(cardData, "imageEncrypted", FALSE)]

\* GET /public/:token, asked at time t
PublicFolderView(fs, cs, token, t, e) ==
  LET found == FindByToken(fs, token)
  IN IF found = {} THEN [status |-> 404, error |-> NotFound]
     ELSE LET folderData == fs[CHOOSE f \in found : TRUE]
              cardIds == Get(folderData, "cardIds", <<>>)
              docs == {c \in CardIds : Includes(cardIds, c) /\ cs[c].exists}
          IN IF folderData.expiresAt # Null /\ isExpired(folderData.expiresAt, t)
             THEN [status |-> 410, error |-> Expired]
             ELSE [status |-> 200, cardCount |-> Cardinality(docs),
                   cards |-> [c \in docs |-> PublicCard(cs, c, token, e)]]

\* the image endpoint falling back to the stored location when decryption
\* fails
PublicImageFallback(fs, cs, token, cardId, t, e, decrypted) ==
  LET found == FindByToken(fs, token)
  IN IF found = {} THEN [status |-> 404, error |-> NotFound]
     ELSE LET folderData == fs[CHOOSE f \in found : TRUE]
          IN IF folderData.expiresAt # Null /\ isExpired(folderData.expiresAt, t)
             THEN [status |-> 410, error |-> Expired]
             ELSE IF ~Has(folderData, "cardIds")
                     \/ ~Includes(folderData.cardIds, cardId)
             THEN [status |-> 403, error |-> "Card not in shared folder"]
             ELSE IF ~cs[cardId].exists
             THEN [status |-> 404, error |-> "Card not found"]
             ELSE IF ~Has(cs[cardId], "imageUrl")
             THEN [status |-> 404, error |-> "Card has no image"]
             ELSE IF ~Get(cs[cardId], "imageEncrypted", FALSE)
             THEN [status |-> 302, location |-> cs[cardId].imageUrl]
             ELSE IF isEncryptionEnabled(e) /\ ~decrypted.raised
             THEN [status |-> 200, image |-> decrypted.value]
             ELSE [status |-> 302, location |-> cs[cardId].imageUrl]

\* the image endpoint without the member-list check
PublicImageAnyCard(fs, cs, token, cardId, t, e, decrypted) ==
  LET found == FindByToken(fs, token)
  IN IF found = {} THEN [status |-> 404, error |-> NotFound]
     ELSE LET folderData == fs[CHOOSE f \in found : TRUE]
          IN IF folderData.expiresAt # Null /\ isExpired(folderData.expiresAt, t)
             THEN [status |-> 410, error |-> Expired]
             ELSE IF ~cs[cardId].exists
             THEN [status |-> 404, error |-> "Card not found"]
             ELSE IF ~Has(cs[cardId], "imageUrl")
             THEN [status |-> 404, error |-> "Card has no image"]
             ELSE IF ~Get(cs[cardId], "imageEncrypted", FALSE)
             THEN [status |-> 302, location |-> cs[cardId].imageUrl]
             ELSE IF ~isEncryptionEnabled(e)
             THEN [status |-> 500, error |-> "Encryption not configured"]
             ELSE IF decrypted.raised
             THEN [status |-> 500, error |-> "Failed to decrypt image"]
             ELSE [status |-> 200, image |-> decrypted.value]

\* GET /public/:token/image/:cardId, asked at time t; decrypted is what
\* getDecryptedImageBuffer returns or that it throws
PublicImage(fs, cs, token, cardId, t, e, decrypted) ==
  LET found == FindByToken(fs, token)
  IN IF found = {} THEN [status |-> 404, error |-> NotFound]
     ELSE LET folderData == fs[CHOOSE f \in found : TRUE]
          IN IF folderData.expiresAt # Null /\ isExpired(folderData.expiresAt, t)
             THEN [status |-> 410, error |-> Expired]
             ELSE IF ~Has(folderData, "cardIds")
                     \/ ~Includes(folderData.cardIds, cardId)
             THEN [status |-> 403, error |-> "Card not in shared folder"]
             ELSE IF ~cs[cardId].exists
             THEN [status |-> 404, error |-> "Card not found"]
             ELSE IF ~Has(cs[cardId], "imageUrl")
             THEN [status |-> 404, error |-> "Card has no image"]
             ELSE IF ~Get(cs[cardId], "imageEncrypted", FALSE)
             THEN [status |-> 302, location |-> cs[cardId].imageUrl]
             ELSE IF ~isEncryptionEnabled(e)
             THEN [status |-> 500, error |-> "Encryption not configured"]
             ELSE IF decrypted.raised
             THEN [status |-> 500, error |-> "Failed to decrypt image"]
             ELSE [status |-> 200, image |-> decrypted.value]

\* what getDecryptedImageBuffer does when the bucket is not looked into
ImageOutcomes == {Raise, Return(<<"i">>)}

----------------------------------------------------------------------------
(* State machine *)

Idle == [op |-> "idle"]
NoResponse == [status |-> 0]

Init ==
  /\ folders = [f \in FolderIds |-> NoDoc]
  /\ cards = [c \in CardIds |->
                IF c = "c1" THEN [exists |-> TRUE, userId |-> "u1",
                                  imageUrl |-> "cards/u1/c1.jpg",
                                  imageEncrypted |-> FALSE]
                ELSE IF c = "c2" THEN [exists |-> TRUE, userId |-> "u1",
                                       imageUrl |-> "cards/u1/c2.jpg.encrypted",
                                       imageEncrypted |-> TRUE]
                ELSE [exists |-> TRUE, userId |-> "u2"]]
  /\ now = StartTime
  /\ nextToken = 1
  /\ pc = [p \in Procs |-> "idle"]
  /\ local = [p \in Procs |-> Idle]
  /\ resp = NoResponse
  /\ issued = {}
  /\ revoked = {}
  /\ env = [ENCRYPTION_KEY |-> KeySetting("k1")]
  /\ bucket = [o \in ObjectPaths |-> NoObject]
  /\ call = NoCall

\* the token that resolves to folder f, if any
Live(f) ==
  IF folders[f].exists /\ folders[f].isPublic THEN {folders[f].shareToken} ELSE {}

Reply(p, r) ==
  /\ resp' = r
  /\ pc' = [pc EXCEPT ![p] = "idle"]
  /\ local' = [local EXCEPT ![p] = Idle]

Proceed(p, to, l) ==
  /\ pc' = [pc EXCEPT ![p] = to]
  /\ local' = [local EXCEPT ![p] = l]
  /\ resp' = resp

\* the checks every authenticated folder handler starts with
FolderAccess(uid, f) ==
  IF ~folders[f].exists THEN [status |-> 404, error |-> "Share folder not found"]
  ELSE IF folders[f].userId # uid THEN [status |-> 403, error |-> "Access denied"]
  ELSE [status |-> 200]

\* new Date() / serverTimestamp() advance
Tick ==
  /\ now < StartTime + MaxTicks * MsPerHour
  /\ now' = now + MsPerHour
  /\ UNCHANGED <<folders, cards, nextToken, pc, local, resp, issued, revoked, env, bucket, call>>

\* POST /api/sharefolders
CreateFolder(uid, f) ==
  /\ ~folders[f].exists
  /\ folders' = [folders EXCEPT ![f] = NewFolder(uid, now)]
  /\ resp' = [status |-> 201, id |-> f]
  /\ UNCHANGED <<cards, now, nextToken, pc, local, issued, revoked, env, bucket, call>>

\* POST /api/sharefolders/:id/cards, up to the update
AddCardRead(p, uid, f, cardId) ==
  /\ pc[p] = "idle"
  /\ LET access == FolderAccess(uid, f)
         folderData == folders[f]
     IN IF access.status # 200 THEN Reply(p, access)
        ELSE IF ~cards[cardId].exists
        THEN Reply(p, [status |-> 404, error |-> "Card not found"])
        ELSE IF cards[cardId].userId # uid
        THEN Reply(p, [status |-> 403, error |-> "Access denied to card"])
        ELSE IF Includes(Get(folderData, "cardIds", <<>>), cardId)
        THEN Reply(p, [status |-> 400, error |-> "Card already in folder"])
        ELSE Proceed(p, "addCard", [op |-> "addCard", f |-> f, cardId |-> cardId])
  /\ UNCHANGED <<folders, cards, now, nextToken, issued, revoked, env, bucket, call>>

\* POST /api/sharefolders/:id/cards, the update
AddCardWrite(p) ==
  /\ pc[p] = "addCard"
  /\ LET f == local[p].f
     IN folders' = [folders EXCEPT ![f] = Update(folders[f],
          [cardIds |-> ArrayUnion(Get(folders[f], "cardIds", <<>>), local[p].cardId)])]
  /\ Reply(p, [status |-> 200, message |-> "Card added to folder successfully"])
  /\ UNCHANGED <<cards, now, nextToken, issued, revoked, env, bucket, call>>

\* DELETE /api/sharefolders/:id/cards/:cardId, up to the update
RemoveCardRead(p, uid, f, cardId) ==
  /\ pc[p] = "idle"
  /\ LET access == FolderAccess(uid, f)
     IN IF access.status # 200 THEN Reply(p, access)
        ELSE Proceed(p, "removeCard",
                     [op |-> "removeCard", f |-> f, cardId |-> cardId])
  /\ UNCHANGED <<folders, cards, now, nextToken, issued, revoked, env, bucket, call>>

\* DELETE /api/sharefolders/:id/cards/:cardId, the update
RemoveCardWrite(p) ==
  /\ pc[p] = "removeCard"
  /\ LET f == local[p].f
     IN folders' = [folders EXCEPT ![f] = Update(folders[f],
          [cardIds |-> ArrayRemove(Get(folders[f], "cardIds", <<>>), local[p].cardId)])]
  /\ Reply(p, [status |-> 200, message |-> "Card removed from folder successfully"])
  /\ UNCHANGED <<cards, now, nextToken, issued, revoked, env, bucket, call>>

\* POST /api/sharefolders/:id/share (GenerateLink), up to the update
ShareRead(p, uid, f, expiresIn) ==
  /\ pc[p] = "idle"
  /\ LET access == FolderAccess(uid, f)
         folderData == folders[f]
         shareToken == nextToken
         expiresAt == calculateExpiry(expiresIn, now)
     IN IF access.status # 200
        THEN Reply(p, access) /\ nextToken' = nextToken
        ELSE IF ShareRejectsEmpty(folderData)
        THEN /\ Reply(p, [status |-> 400,
                          error |-> "Cannot share empty folder. Add cards first."])
             /\ nextToken' = nextToken
        ELSE /\ nextToken <= MaxTokens
             /\ nextToken' = nextToken + 1
             /\ Proceed(p, "share",
                  [op |-> "share", f |-> f, shareToken |-> shareToken,
                   expiresAt |-> expiresAt,
                   fields |-> ShareFields(folderData, shareToken, expiresAt, now)])
  /\ UNCHANGED <<folders, cards, now, issued, revoked, env, bucket, call>>

\* POST /api/sharefolders/:id/share (GenerateLink), the update and the reply
ShareWrite(p) ==
  /\ pc[p] = "share"
  /\ LET f == local[p].f
         after == Update(folders[f], local[p].fields)
     IN /\ folders' = [folders EXCEPT ![f] = after]
        /\ revoked' = revoked \cup Live(f)    \* the link this one replaces
  /\ issued' = issued \cup {local[p].shareToken}
  /\ Reply(p, [status |-> 200, shareToken |-> local[p].shareToken,
               expiresAt |-> local[p].expiresAt])
  /\ UNCHANGED <<cards, now, nextToken, env, bucket, call>>

\* DELETE /api/sharefolders/:id/share (RevokeLink), up to the update
RevokeRead(p, uid, f) ==
  /\ pc[p] = "idle"
  /\ LET access == FolderAccess(uid, f)
         folderData == folders[f]
     IN IF access.status # 200 THEN Reply(p, access)
        ELSE IF RevokeRejects(folderData)
        THEN Reply(p, [status |-> 400, error |-> "No active share link to revoke"])
        ELSE Proceed(p, "revoke",
               [op |-> "revoke", f |-> f, shareToken |-> folderData.shareToken,
                fields |-> RevokeFields(folderData, now)])
  /\ UNCHANGED <<folders, cards, now, nextToken, issued, revoked, env, bucket, call>>

\* DELETE /api/sharefolders/:id/share (RevokeLink), the update and the reply
RevokeWrite(p) ==
  /\ pc[p] = "revoke"
  /\ LET f == local[p].f
         after == Update(folders[f], local[p].fields)
     IN /\ folders' = [folders EXCEPT ![f] = after]
        \* the link the request read as active, and the one live by now
        /\ revoked' = revoked \cup {local[p].shareToken} \cup Live(f)
  /\ Reply(p, [status |-> 200, message |-> "Share link revoked successfully"])
  /\ UNCHANGED <<cards, now, nextToken, issued, env, bucket, call>>

\* GET /api/sharefolders/public/:token
PublicViewRequest(token) ==
  /\ resp' = PublicFolderView(folders, cards, token, now, env)
  /\ UNCHANGED <<folders, cards, now, nextToken, pc, local, issued, revoked, env, bucket, call>>

\* GET /api/sharefolders/public/:token/image/:cardId
PublicImageRequest(token, cardId, decrypted) ==
  /\ resp' = PublicImage(folders, cards, token, cardId, now, env, decrypted)
  /\ UNCHANGED <<folders, cards, now, nextToken, pc, local, issued, revoked, env, bucket, call>>

AllIdle == \A p \in Procs : pc[p] = "idle"

\* a request arrives at slot p and its handler runs up to its update
Reads(p) ==
  \E uid \in Users, f \in FolderIds :
    \/ \E cardId \in CardIds : AddCardRead(p, uid, f, cardId)
    \/ \E cardId \in CardIds : RemoveCardRead(p, uid, f, cardId)
    \/ \E expiresIn \in DurationSpecs : ShareRead(p, uid, f, expiresIn)
    \/ RevokeRead(p, uid, f)

\* the update of the handler at slot p lands
Writes(p) ==
  AddCardWrite(p) \/ RemoveCardWrite(p) \/ ShareWrite(p) \/ RevokeWrite(p)

Create == \E uid \in Owners, f \in FolderIds : CreateFolder(uid, f)

Public ==
  \/ \E token \in {NeverIssued} \cup Tokens : PublicViewRequest(token)
  \/ \E token \in {NeverIssued} \cup Tokens, cardId \in CardIds :
       \E decrypted \in IF Get(cards[cardId], "imageEncrypted", FALSE)
                        THEN ImageOutcomes ELSE {Raise} :
         PublicImageRequest(token, cardId, decrypted)

\* One request at a time, the clock running between requests: a request
\* arrives only when no handler is in flight.
Next ==
  \/ AllIdle /\ Reads(1)
  \/ Writes(1)
  \/ AllIdle /\ Create
  \/ AllIdle /\ Public
  \/ AllIdle /\ Tick

Spec == Init /\ [][Next]_vars

\* Concurrent requests: handlers at different slots interleave freely
\* between their read and their update, within one clock instant.
NextConc ==
  \/ \E p \in Procs : Reads(p)
  \/ \E p \in Procs : Writes(p)
  \/ Create

SpecConc == Init /\ [][NextConc]_vars

\* Concurrent requests with the clock running between any two steps
NextConcTimed ==
  \/ NextConc
  \/ Tick

SpecConcTimed == Init /\ [][NextConcTimed]_vars

----------------------------------------------------------------------------
(* server/routes/cards and server/routes/extract: the card store *)

(* Each handler is one step: its reads and its one write touch a single    *)
(* card document.  A request body is a record of the attributes it gives;  *)
(* the bank and type normalisation, the timestamps createdAt, updatedAt    *)
(* and extractedAt, and the response body are left out.                    *)

IVs == {1, 2}                   \* what crypto.randomBytes(IV_LENGTH) returns
NewCardIds == {"c1"}            \* ids collection.add() hands out
EmptyRecord == [k \in {} |-> JsNull]

Undefined == [t |-> "undefined"]

\* the record holding the attributes of f that have a value
Given(f) == [k \in {k \in DOMAIN f : f[k] # Undefined} |-> f[k]]

\* request bodies of POST /api/cards and PUT /api/cards/:id
CardBodies ==
  {EmptyRecord,
   [cardNumber |-> Str(<<"4">>)],
   [cardNumber |-> Str(<<Space>>)],
   [cardNumber |-> Str(<<>>)],
   [cvv |-> Str(<<"1">>)],
   [cardNumber_encrypted |-> JsTrue],
   [cardNumber |-> Str(<<"4">>), cvv |-> Str(<<"1">>), expiryDate |-> Str(<<"9">>)],
   [cardNumber |-> Str(<<"4">>), cvv |-> Num(7), expiryDate |-> Str(<<"9">>)]}

\* the IVs drawn while one request is handled
RequestIVs == {[f \in Sensitive |-> iv] : iv \in IVs}

\* what the extraction model returns for a card image
Extractions ==
  {Given([cardNumber |-> cn, cvv |-> cv]) :
     cn \in {Undefined, Str(<<"4", Space, "4">>)},
     cv \in {Undefined, Str(<<"1">>)}}

EncryptionKeys == {NoKey, ShortKey, KeySetting("k1")}

\* the cvv bookkeeping of create and update: if (req.body.cvv)
CvvStamp(body, t) ==
  IF FieldTruthy(body, "cvv")
  THEN [cvvStoredAt |-> Num(t), cvvWarningShown |-> JsFalse]
  ELSE EmptyRecord

\* const ENCRYPTION_ENABLED = isEncryptionEnabled(); encryptCardData if set
EncryptIfEnabled(cardData, e, ivs) ==
  IF isEncryptionEnabled(e) THEN encryptCardData(cardData, e, ivs)
  ELSE Return(cardData)

\* extractedData.cardNumber.replace(/[\s-]/g, ''), cvv.replace(/\s/g, '')
StripSpaces(v) == Str(SelectSeq(v.s, LAMBDA ch : ch \notin Whitespace))

CleanExtracted(extractedData) ==
  [k \in DOMAIN extractedData |->
     IF Truthy(extractedData[k]) THEN StripSpaces(extractedData[k])
     ELSE extractedData[k]]

InitCards ==
  /\ folders = [f \in FolderIds |-> NoDoc]
  /\ cards = [c \in CardIds |-> NoDoc]
  /\ now = StartTime
  /\ nextToken = 1
  /\ pc = [p \in Procs |-> "idle"]
  /\ local = [p \in Procs |-> Idle]
  /\ resp = NoResponse
  /\ issued = {}
  /\ revoked = {}
  /\ env \in [ENCRYPTION_KEY : EncryptionKeys]
  /\ bucket = [o \in ObjectPaths |-> NoObject]
  /\ call = NoCall

CardAccess(uid, id) ==
  IF ~cards[id].exists THEN [status |-> 404, error |-> "Card not found"]
  ELSE IF cards[id].userId # uid THEN [status |-> 403, error |-> "Unauthorized"]
  ELSE [status |-> 200]

EncryptionFailed == [status |-> 500, error |-> "Failed to encrypt card data"]

\* POST /api/cards
CreateCard(uid, id, body, ivs) ==
  /\ ~cards[id].exists
  /\ LET cardData == Update(body, [userId |-> uid])
         encrypted == EncryptIfEnabled(cardData, env, ivs)
     IN IF encrypted.raised
        THEN resp' = EncryptionFailed /\ cards' = cards
        ELSE /\ cards' = [cards EXCEPT ![id] =
                  Update(Update(encrypted.value, CvvStamp(body, now)),
                         [exists |-> TRUE])]
             /\ resp' = [status |-> 201]
  /\ UNCHANGED <<folders, now, nextToken, pc, local, issued, revoked,
                 env, bucket, call>>

\* PUT /api/cards/:id
UpdateCard(uid, id, body, ivs) ==
  /\ LET access == CardAccess(uid, id)
         encrypted == EncryptIfEnabled(body, env, ivs)
     IN IF access.status # 200 THEN resp' = access /\ cards' = cards
        ELSE IF encrypted.raised
        THEN resp' = EncryptionFailed /\ cards' = cards
        ELSE /\ cards' = [cards EXCEPT ![id] =
                  Update(cards[id], Update(encrypted.value, CvvStamp(body, now)))]
             /\ resp' = [status |-> 200]
  /\ UNCHANGED <<folders, now, nextToken, pc, local, issued, revoked,
                 env, bucket, call>>

\* mutant of DeleteCvv: the provenance timestamp is left behind
DeleteCvvKeepsStamp(uid, id) ==
  /\ LET access == CardAccess(uid, id)
     IN IF access.status # 200 THEN resp' = access /\ cards' = cards
        ELSE /\ cards' = [cards EXCEPT ![id] =
                  Remove(cards[id], {"cvv", "cvv_encrypted", "cvvWarningShown"})]
             /\ resp' = [status |-> 200, message |-> "CVV deleted successfully"]
  /\ UNCHANGED <<folders, now, nextToken, pc, local, issued, revoked,
                 env, bucket, call>>

\* DELETE /api/cards/:id/cvv
DeleteCvv(uid, id) ==
  /\ LET access == CardAccess(uid, id)
     IN IF access.status # 200 THEN resp' = access /\ cards' = cards
        ELSE /\ cards' = [cards EXCEPT ![id] =
                  Remove(cards[id], {"cvv", "cvv_encrypted", "cvvStoredAt",
                                     "cvvWarningShown"})]
             /\ resp' = [status |-> 200, message |-> "CVV deleted successfully"]
  /\ UNCHANGED <<folders, now, nextToken, pc, local, issued, revoked,
                 env, bucket, call>>

\* POST /api/extract with a cardId, once the model has answered
ExtractUpdate(cardId, extractedData) ==
  /\ IF ~cards[cardId].exists
     THEN resp' = [status |-> 500, error |-> "Failed to extract card details"]
          /\ cards' = cards
     ELSE /\ cards' = [cards EXCEPT ![cardId] =
               Update(cards[cardId],
                      Update(CleanExtracted(extractedData),
                             [extractionStatus |-> Str(<<"completed">>)]))]
          /\ resp' = [status |-> 200, success |-> TRUE]
  /\ UNCHANGED <<folders, now, nextToken, pc, local, issued, revoked,
                 env, bucket, call>>

CreateCardRequest ==
  \E uid \in Users, id \in NewCardIds, body \in CardBodies,
     ivs \in RequestIVs : CreateCard(uid, id, body, ivs)

UpdateCardRequest ==
  \E uid \in Users, id \in NewCardIds, body \in CardBodies,
     ivs \in RequestIVs : UpdateCard(uid, id, body, ivs)

DeleteCvvRequest == \E uid \in Users, id \in NewCardIds : DeleteCvv(uid, id)

ExtractRequest ==
  \E id \in NewCardIds, extractedData \in Extractions :
    ExtractUpdate(id, extractedData)

NextCards ==
  \/ CreateCardRequest
  \/ UpdateCardRequest
  \/ DeleteCvvRequest
  \/ ExtractRequest

SpecCards == InitCards /\ [][NextCards]_vars

----------------------------------------------------------------------------
(* server/utils/encryption: records through encryptCardData and            *)
(* decryptCardData                                                         *)

(* A record is encrypted as the create route does it, may then be damaged  *)
(* in the store or outlive the key it was encrypted under, and is          *)
(* decrypted as the read routes do it.  `call` keeps the record given, the *)
(* stored form, the attributes damaged and the last result.                *)

\* one bit of the token's ciphertext segment, or of its tag segment, altered
FlipCiphertext(v) ==
  Token(<<v.parts[1], v.parts[2], [v.parts[3] EXCEPT !.flip = 1]>>)
FlipTag(v) ==
  Token(<<v.parts[1], [v.parts[2] EXCEPT !.flip = 1], v.parts[3]>>)

Damages == {"ciphertext", "tag", "plaintext"}

Damaged(v, how) ==
  CASE how = "ciphertext" -> FlipCiphertext(v)
    [] how = "tag" -> FlipTag(v)
    [] how = "plaintext" -> Str(<<"4">>)

\* records handed to encryptCardData
RecordInputs ==
  {Given([cardName |-> Str(<<"n">>), cardNumber |-> cn, cvv |-> cv,
          expiryDate |-> ex]) :
     cn \in {Undefined, Str(<<"4">>), Str(<<Space>>)},
     cv \in {Undefined, Str(<<"1">>)},
     ex \in {Undefined, Str(<<"9">>)}}

InitRecord ==
  /\ folders = [f \in FolderIds |-> NoDoc]
  /\ cards = [c \in CardIds |-> NoDoc]
  /\ now = StartTime
  /\ nextToken = 1
  /\ pc = [p \in Procs |-> "idle"]
  /\ local = [p \in Procs |-> Idle]
  /\ resp = NoResponse
  /\ issued = {}
  /\ revoked = {}
  /\ env = [ENCRYPTION_KEY |-> KeySetting("k1")]
  /\ bucket = [o \in ObjectPaths |-> NoObject]
  /\ call \in {[fn |-> "input", record |-> r] : r \in RecordInputs}

EncryptRecord(ivs) ==
  /\ call.fn = "input"
  /\ LET r == encryptCardData(call.record, env, ivs)
     IN /\ ~r.raised
        /\ call' = [fn |-> "encryptCardData", record |-> call.record,
                    stored |-> r.value, damaged |-> {},
                    key |-> env.ENCRYPTION_KEY]
  /\ UNCHANGED <<folders, cards, now, nextToken, pc, local, resp, issued,
                 revoked, env, bucket>>

DamageField(f, how) ==
  /\ call.fn = "encryptCardData"
  /\ f \notin call.damaged
  /\ IsCiphertext(call.stored, f)
  /\ call' = [call EXCEPT !.stored = Update(@, [k \in {f} |-> Damaged(@[f], how)]),
                          !.damaged = @ \cup {f}]
  /\ UNCHANGED <<folders, cards, now, nextToken, pc, local, resp, issued,
                 revoked, env, bucket>>

\* the process is started again with another ENCRYPTION_KEY setting
RestartWithKey(k) ==
  /\ call.fn \in {"encryptCardData", "encrypt"}
  /\ env.ENCRYPTION_KEY # k
  /\ env' = [ENCRYPTION_KEY |-> k]
  /\ UNCHANGED <<folders, cards, now, nextToken, pc, local, resp, issued,
                 revoked, bucket, call>>

DecryptRecord ==
  /\ call.fn = "encryptCardData"
  /\ call' = [fn |-> "decryptCardData", record |-> call.record,
              stored |-> call.stored, damaged |-> call.damaged,
              key |-> call.key, result |-> decryptCardData(call.stored, env)]
  /\ UNCHANGED <<folders, cards, now, nextToken, pc, local, resp, issued,
                 revoked, env, bucket>>

NextRecord ==
  \/ \E ivs \in [Sensitive -> IVs] : EncryptRecord(ivs)
  \/ \E f \in Sensitive, how \in Damages : DamageField(f, how)
  \/ \E k \in {NoKey, ShortKey, KeySetting("k2")} : RestartWithKey(k)
  \/ DecryptRecord

SpecRecord == InitRecord /\ [][NextRecord]_vars

----------------------------------------------------------------------------
(* server/utils/encryption: strings through encrypt and decrypt *)

MaxLen == 2                     \* longest plaintext, in characters

Alphabet == {"4", Space, LoneSurrogate}

Plaintexts == UNION {[1 .. n -> Alphabet] : n \in 0 .. MaxLen}

\* the token's tag segment cut to its first n bytes
TruncateTag(v, n) ==
  Token(<<v.parts[1], [v.parts[2] EXCEPT !.len = n], v.parts[3]>>)

Tamperings == {"ciphertext", "tag", "truncate"}

Tampered(v, how) ==
  CASE how = "ciphertext" -> FlipCiphertext(v)
    [] how = "tag" -> FlipTag(v)
    [] how = "truncate" -> TruncateTag(v, AUTH_TAG_LENGTH \div 4)

InitField ==
  /\ folders = [f \in FolderIds |-> NoDoc]
  /\ cards = [c \in CardIds |-> NoDoc]
  /\ now = StartTime
  /\ nextToken = 1
  /\ pc = [p \in Procs |-> "idle"]
  /\ local = [p \in Procs |-> Idle]
  /\ resp = NoResponse
  /\ issued = {}
  /\ revoked = {}
  /\ env = [ENCRYPTION_KEY |-> KeySetting("k1")]
  /\ bucket = [o \in ObjectPaths |-> NoObject]
  /\ call \in {[fn |-> "input", plaintext |-> Str(p)] : p \in Plaintexts}

EncryptField(iv) ==
  /\ call.fn = "input"
  /\ LET r == encrypt(call.plaintext, env, iv)
     IN /\ ~r.raised
        /\ call' = [fn |-> "encrypt", plaintext |-> call.plaintext,
                    token |-> r.value, tampered |-> "no",
                    key |-> env.ENCRYPTION_KEY]
  /\ UNCHANGED <<folders, cards, now, nextToken, pc, local, resp, issued,
                 revoked, env, bucket>>

TamperToken(how) ==
  /\ call.fn = "encrypt"
  /\ call.tampered = "no"
  /\ call.token.t = "token"
  /\ call' = [call EXCEPT !.token = Tampered(@, how), !.tampered = how]
  /\ UNCHANGED <<folders, cards, now, nextToken, pc, local, resp, issued,
                 revoked, env, bucket>>

DecryptField ==
  /\ call.fn = "encrypt"
  /\ call' = [fn |-> "decrypt", plaintext |-> call.plaintext,
              token |-> call.token, tampered |-> call.tampered,
              key |-> call.key, result |-> decrypt(call.token, env)]
  /\ UNCHANGED <<folders, cards, now, nextToken, pc, local, resp, issued,
                 revoked, env, bucket>>

NextField ==
  \/ \E iv \in IVs : EncryptField(iv)
  \/ \E how \in Tamperings : TamperToken(how)
  \/ \E k \in {NoKey, ShortKey, KeySetting("k2")} : RestartWithKey(k)
  \/ DecryptField

SpecField == InitField /\ [][NextField]_vars

----------------------------------------------------------------------------
(* server/utils/imageEncryption: encryptStoredImage *)

(* One call of encryptStoredImage(bucket, filePath) in request slot 1.     *)
(* Every await is a step that can succeed or reject, and the process can   *)
(* stop between any two steps.  An object is in the bucket once save() has *)
(* resolved, whole; a rejected save() or delete() leaves the bucket as it  *)
(* was.  A buffer is a sequence of bytes; an encrypted buffer is the       *)
(* sequence IV, tag, ciphertext.                                           *)

PlainPath == "cards/u1/c1.jpg"
EncryptedPath(filePath) ==
  IF filePath = "cards/u1/c1.jpg" THEN "cards/u1/c1.jpg.encrypted"
  ELSE "cards/u1/c1.jpg.encrypted.encrypted"

Object(content) == [exists |-> TRUE, content |-> content]

\* encryptImageBuffer(imageBuffer)
encryptImageBuffer(imageBuffer, e, iv) ==
  IF Len(imageBuffer) = 0 THEN Raise            \* 'Image buffer is empty'
  ELSE LET key == getEncryptionKey(e)
       IN IF key.raised THEN Raise
          ELSE LET ct == GcmCiphertext(key.value, iv, imageBuffer)
               IN Return(<<iv, GcmAuthTag(key.value, iv, ct), ct>>)

\* the order of the awaits, with the delete ahead of the save
DeleteThenSave == <<"exists", "download", "encrypt", "delete", "save", "return">>

\* the order of the awaits in encryptStoredImage
StoredImageSteps == <<"exists", "download", "encrypt", "save", "delete", "return">>

Following(step) ==
  StoredImageSteps[(CHOOSE i \in 1 .. Len(StoredImageSteps) :
                      StoredImageSteps[i] = step) + 1]

InitImage ==
  /\ folders = [f \in FolderIds |-> NoDoc]
  /\ cards = [c \in CardIds |-> NoDoc]
  /\ now = StartTime
  /\ nextToken = 1
  /\ pc = [p \in Procs |-> "idle"]
  /\ local = [p \in Procs |-> Idle]
  /\ resp = NoResponse
  /\ issued = {}
  /\ revoked = {}
  /\ env \in [ENCRYPTION_KEY : {KeySetting("k1"), NoKey}]
  /\ bucket \in {[o \in ObjectPaths |->
                    IF o = PlainPath THEN plain ELSE stale] :
                  plain \in {NoObject, Object(<<>>), Object(<<"i">>), Object(<<"i", "j">>)},
                  stale \in {NoObject, Object(<<"old">>)}}
  /\ call = [fn |-> "encryptStoredImage", filePath |-> PlainPath,
             original |-> bucket[PlainPath]]

\* the catch block: throw new Error('Failed to encrypt stored image')
Throw(at) ==
  /\ pc' = [pc EXCEPT ![1] = "failed"]
  /\ local' = [local EXCEPT ![1] = [@ EXCEPT !.at = at]]

Step(to, l) ==
  /\ pc' = [pc EXCEPT ![1] = to]
  /\ local' = [local EXCEPT ![1] = l]

CallStoredImage ==
  /\ pc[1] = "idle"
  /\ local[1] = Idle
  /\ Step(StoredImageSteps[1],
          [op |-> "encryptStoredImage", filePath |-> call.filePath, at |-> "none"])
  /\ UNCHANGED <<folders, cards, now, nextToken, resp, issued, revoked,
                 env, bucket, call>>

\* const [exists] = await file.exists()
AwaitExists(ok) ==
  /\ pc[1] = "exists"
  /\ IF ok /\ bucket[local[1].filePath].exists
     THEN Step(Following("exists"), local[1])
     ELSE Throw("exists")
  /\ UNCHANGED <<folders, cards, now, nextToken, resp, issued, revoked,
                 env, bucket, call>>

\* const [buffer] = await file.download()
AwaitDownload(ok) ==
  /\ pc[1] = "download"
  /\ IF ok /\ bucket[local[1].filePath].exists
     THEN Step(Following("download"),
               Update(local[1], [buffer |-> bucket[local[1].filePath].content]))
     ELSE Throw("download")
  /\ UNCHANGED <<folders, cards, now, nextToken, resp, issued, revoked,
                 env, bucket, call>>

\* const encryptedBuffer = encryptImageBuffer(buffer)
EncryptBuffer(iv) ==
  /\ pc[1] = "encrypt"
  /\ LET r == encryptImageBuffer(local[1].buffer, env, iv)
     IN IF r.raised THEN Throw("encrypt")
        ELSE Step(Following("encrypt"),
                  Update(local[1], [encryptedBuffer |-> r.value]))
  /\ UNCHANGED <<folders, cards, now, nextToken, resp, issued, revoked,
                 env, bucket, call>>

\* await encryptedFile.save(encryptedBuffer, ..)
AwaitSave(ok) ==
  /\ pc[1] = "save"
  /\ IF ok
     THEN /\ bucket' = [bucket EXCEPT ![EncryptedPath(local[1].filePath)] =
                          Object(local[1].encryptedBuffer)]
          /\ Step(Following("save"), local[1])
     ELSE bucket' = bucket /\ Throw("save")
  /\ UNCHANGED <<folders, cards, now, nextToken, resp, issued, revoked,
                 env, call>>

\* await file.delete()
AwaitDelete(ok) ==
  /\ pc[1] = "delete"
  /\ IF ok /\ bucket[local[1].filePath].exists
     THEN /\ bucket' = [bucket EXCEPT ![local[1].filePath] = NoObject]
          /\ Step(Following("delete"), local[1])
     ELSE bucket' = bucket /\ Throw("delete")
  /\ UNCHANGED <<folders, cards, now, nextToken, resp, issued, revoked,
                 env, call>>

\* return encryptedFilePath
ReturnPath ==
  /\ pc[1] = "return"
  /\ Step("done", Update(local[1],
                         [result |-> EncryptedPath(local[1].filePath)]))
  /\ UNCHANGED <<folders, cards, now, nextToken, resp, issued, revoked,
                 env, bucket, call>>

\* the process stops before its next step
Crash ==
  /\ pc[1] \in {StoredImageSteps[i] : i \in 1 .. Len(StoredImageSteps)}
  /\ pc' = [pc EXCEPT ![1] = "crashed"]
  /\ local' = [local EXCEPT ![1] = [@ EXCEPT !.at = pc[1]]]
  /\ UNCHANGED <<folders, cards, now, nextToken, resp, issued, revoked,
                 env, bucket, call>>

NextImage ==
  \/ CallStoredImage
  \/ \E ok \in BOOLEAN : AwaitExists(ok)
  \/ \E ok \in BOOLEAN : AwaitDownload(ok)
  \/ \E iv \in IVs : EncryptBuffer(iv)
  \/ \E ok \in BOOLEAN : AwaitSave(ok)
  \/ \E ok \in BOOLEAN : AwaitDelete(ok)
  \/ ReturnPath
  \/ Crash

SpecImage == InitImage /\ [][NextImage]_vars

----------------------------------------------------------------------------
(* Serving a shared folder and its images: server/utils/imageEncryption    *)
(* (getDecryptedImageBuffer), the public endpoints of server/routes/       *)
(* shareFolders and GET /api/cards/:id/image                               *)

(* The store holds one folder of user u1 that has been shared with token 1 *)
(* (and perhaps revoked since), the cards c1 and c2 of u1 and c3 of u2,    *)
(* and the object c1's image reference points at.  Requests only read.     *)

IV_LENGTH == 16

\* encryptedBuffer.length, in bytes: the IV, the tag and the ciphertext
BufferLength(buffer) ==
  CASE Len(buffer) = 0 -> 0
    [] Len(buffer) = 1 -> IV_LENGTH
    [] Len(buffer) = 2 -> IV_LENGTH + AUTH_TAG_LENGTH
    [] OTHER -> IV_LENGTH + AUTH_TAG_LENGTH + Len(buffer[3].pt)

\* decryptImageBuffer(encryptedBuffer)
decryptImageBuffer(encryptedBuffer, e) ==
  IF BufferLength(encryptedBuffer) < IV_LENGTH + AUTH_TAG_LENGTH
  THEN Raise                                 \* 'Invalid encrypted image buffer'
  ELSE LET key == getEncryptionKey(e)
       IN IF key.raised THEN Raise
          ELSE LET iv == encryptedBuffer[1]
                   authTag == encryptedBuffer[2]
                   encrypted == IF Len(encryptedBuffer) > 2
                                THEN encryptedBuffer[3]
                                ELSE GcmCiphertext(key.value, iv, <<>>)
               IN IF ~GcmVerifies(key.value, iv, authTag, encrypted) THEN Raise
                  ELSE Return(encrypted.pt)

\* getDecryptedImageBuffer(bucket, encryptedFilePath); ok is whether the
\* storage calls resolve
getDecryptedImageBuffer(b, encryptedFilePath, e, ok) ==
  IF ~ok THEN Raise
  ELSE IF encryptedFilePath \notin DOMAIN b \/ ~b[encryptedFilePath].exists
  THEN Raise                                 \* 'Encrypted file not found'
  ELSE decryptImageBuffer(b[encryptedFilePath].content, e)

\* GET /api/cards/:id/image
OwnerImage(cs, uid, cardId, e, decrypted) ==
  IF ~cs[cardId].exists THEN [status |-> 404, error |-> "Card not found"]
  ELSE IF cs[cardId].userId # uid THEN [status |-> 403, error |-> "Unauthorized"]
  ELSE IF ~Has(cs[cardId], "imageUrl")
  THEN [status |-> 404, error |-> "Card has no image"]
  ELSE IF ~Get(cs[cardId], "imageEncrypted", FALSE)
  THEN [status |-> 200, imageUrl |-> cs[cardId].imageUrl, encrypted |-> FALSE]
  ELSE IF ~isEncryptionEnabled(e)
  THEN [status |-> 500, error |-> "Encryption not configured"]
  ELSE IF decrypted.raised
  THEN [status |-> 500, error |-> "Failed to decrypt image"]
  ELSE [status |-> 200, image |-> decrypted.value]

TheImage == <<"i">>
StoredBlob == encryptImageBuffer(TheImage, [ENCRYPTION_KEY |-> KeySetting("k1")], 1).value

\* what the object at the encrypted path can be
StoredObjects ==
  {NoObject,
   Object(StoredBlob),
   Object(<<StoredBlob[1]>>),
   Object(<<StoredBlob[1], StoredBlob[2], [StoredBlob[3] EXCEPT !.flip = 1]>>),
   Object(<<StoredBlob[1], [StoredBlob[2] EXCEPT !.flip = 1], StoredBlob[3]>>)}

\* the image attributes of a card document
ImageAttributes ==
  {EmptyRecord,
   [imageUrl |-> PlainPath, imageEncrypted |-> FALSE],
   [imageUrl |-> EncryptedPath(PlainPath), imageEncrypted |-> TRUE]}

\* the sensitive attributes of a card document
SensitiveAttributes ==
  {[cardNumber |-> Str(<<"4">>)],
   encryptCardData([cardNumber |-> Str(<<"4">>), cvv |-> Str(<<"1">>)],
                   [ENCRYPTION_KEY |-> KeySetting("k1")],
                   [f \in Sensitive |-> 1]).value}

SharedAt == StartTime - 2 * MsPerHour

\* folder f1 of u1 with the members ids, shared at SharedAt with token 1
SharedFolder(ids, expiresAt) ==
  LET folderData == Update(NewFolder("u1", SharedAt), [cardIds |-> ids])
  IN Update(folderData, ShareFields(folderData, 1, expiresAt, SharedAt))

InitServe ==
  /\ \E ids \in {<<"c1">>, <<"c1", "c2">>},
        expiresAt \in {Null, StartTime - MsPerHour, StartTime + MsPerHour},
        isRevoked \in BOOLEAN :
       LET shared == SharedFolder(ids, expiresAt)
       IN /\ folders = [f \in FolderIds |->
                          IF isRevoked
                          THEN Update(shared, RevokeFields(shared, SharedAt))
                          ELSE shared]
          /\ revoked = IF isRevoked THEN {1} ELSE {}
  /\ \E image \in ImageAttributes, sensitive \in SensitiveAttributes :
       cards = [c \in CardIds |->
                  IF c = "c1"
                  THEN Update(Update([exists |-> TRUE, userId |-> "u1",
                                      cardName |-> Str(<<"n">>)], sensitive),
                              image)
                  ELSE IF c = "c2" THEN [exists |-> TRUE, userId |-> "u1"]
                  ELSE [exists |-> TRUE, userId |-> "u2",
                        imageUrl |-> EncryptedPath(PlainPath),
                        imageEncrypted |-> TRUE]]
  /\ now = StartTime
  /\ nextToken = 2
  /\ pc = [p \in Procs |-> "idle"]
  /\ local = [p \in Procs |-> Idle]
  /\ resp = NoResponse
  /\ issued = {1}
  /\ env \in [ENCRYPTION_KEY : {KeySetting("k1"), KeySetting("k2"), NoKey, ShortKey}]
  /\ \E stored \in StoredObjects :
       bucket = [o \in ObjectPaths |->
                   IF o = PlainPath THEN Object(TheImage) ELSE stored]
  /\ call = [fn |-> "getDecryptedImageBuffer", image |-> TheImage]

\* what the handlers get from getDecryptedImageBuffer for a card
DecryptedImageOf(cardId, ok) ==
  IF Has(cards[cardId], "imageUrl")
  THEN getDecryptedImageBuffer(bucket, cards[cardId].imageUrl, env, ok)
  ELSE Raise

\* GET /api/cards/:id/image
OwnerImageRequest(uid, cardId, decrypted) ==
  /\ resp' = OwnerImage(cards, uid, cardId, env, decrypted)
  /\ UNCHANGED <<folders, cards, now, nextToken, pc, local, issued, revoked,
                 env, bucket, call>>

ServeTokens == {1, NeverIssued}

NextServe ==
  \/ \E token \in ServeTokens : PublicViewRequest(token)
  \/ \E token \in ServeTokens, cardId \in CardIds, ok \in BOOLEAN :
       PublicImageRequest(token, cardId, DecryptedImageOf(cardId, ok))
  \/ \E uid \in Users, cardId \in CardIds, ok \in BOOLEAN :
       OwnerImageRequest(uid, cardId, DecryptedImageOf(cardId, ok))

SpecServe == InitServe /\ [][NextServe]_vars

----------------------------------------------------------------------------
(* server/utils/shareToken: calculateExpiry on its own                     *)

(* One call of calculateExpiry(duration) at the time now; call holds the   *)
(* argument and resp the returned value.  An empty duration stands for     *)
(* every falsy argument (undefined, null, '').                             *)

MaxDuration == 3

DurationAlphabet == {"0", "1", "2", "h", "d", "-", "x"}

\* the largest count of hours or days asked for, which keeps now + count
\* days within the integers
MaxCount == 12

Durations ==
  {duration \in UNION {[1 .. n -> DurationAlphabet] : n \in 0 .. MaxDuration} :
     (UnitMatch(duration, "h") \/ UnitMatch(duration, "d"))
       => UnitCount(duration) <= MaxCount}
    \cup {Never, <<"a", "b", "c">>}

InitExpiry ==
  /\ \E duration \in Durations :
       call = [fn |-> "calculateExpiry", duration |-> duration]
  /\ now \in {StartTime, StartTime + MsPerHour}
  /\ resp = NoResponse
  /\ folders = [f \in FolderIds |-> NoDoc]
  /\ cards = [c \in CardIds |-> NoDoc]
  /\ nextToken = 1
  /\ pc = [p \in Procs |-> "idle"]
  /\ local = [p \in Procs |-> Idle]
  /\ issued = {}
  /\ revoked = {}
  /\ env = [ENCRYPTION_KEY |-> NoKey]
  /\ bucket = [o \in ObjectPaths |-> NoObject]

CallCalculateExpiry ==
  /\ call.fn = "calculateExpiry"
  /\ resp = NoResponse
  /\ resp' = [value |-> calculateExpiry(call.duration, now)]
  /\ UNCHANGED <<folders, cards, now, nextToken, pc, local, issued, revoked,
                 env, bucket, call>>

NextExpiry == CallCalculateExpiry

SpecExpiry == InitExpiry /\ [][NextExpiry]_vars

----------------------------------------------------------------------------
(* The card store and the share folders together: server/routes/cards,    *)
(* server/routes/extract and the member list of server/routes/shareFolders *)

(* Card c1 of u1 (with an image) and card c2 of u2 are stored, c3 is the   *)
(* id the next created card gets, and u1 has the empty folder f1.  One     *)
(* request is handled at a time.                                           *)

\* DELETE /api/cards/:id: the stored image and its encrypted version are
\* deleted if the image exists, then the card document
DeleteCard(uid, id) ==
  /\ LET access == CardAccess(uid, id)
     IN IF access.status # 200
        THEN resp' = access /\ cards' = cards /\ bucket' = bucket
        ELSE /\ bucket' =
                  IF Has(cards[id], "imageUrl")
                     /\ cards[id].imageUrl \in DOMAIN bucket
                     /\ bucket[cards[id].imageUrl].exists
                  THEN [o \in DOMAIN bucket |->
                          IF o \in {cards[id].imageUrl,
                                    EncryptedPath(cards[id].imageUrl)}
                          THEN NoObject ELSE bucket[o]]
                  ELSE bucket
             /\ cards' = [cards EXCEPT ![id] = NoDoc]
             /\ resp' = [status |-> 200, message |-> "Card deleted successfully"]
  /\ UNCHANGED <<folders, now, nextToken, pc, local, issued, revoked, env, call>>

\* the document POST /api/cards stores for the body
CreatedCard(uid, body, e, ivs, t) ==
  Update(Update(EncryptIfEnabled(Update(body, [userId |-> uid]), e, ivs).value,
                CvvStamp(body, t)),
         [exists |-> TRUE])

StoreIVs == [f \in Sensitive |-> 1]

FullBody ==
  [cardNumber |-> Str(<<"4">>), cvv |-> Str(<<"1">>), expiryDate |-> Str(<<"9">>)]

\* request bodies of POST /api/cards and PUT /api/cards/:id
StoreBodies == {[cvv |-> Str(<<"2">>)], [userId |-> "u2"]}

\* the cards the card requests name; c2 is only ever read
StoreCards == {"c1", "c3"}

StoreExtractions == {[cardNumber |-> Str(<<"4", Space, "4">>)]}

InitStore ==
  /\ env \in [ENCRYPTION_KEY : {NoKey, KeySetting("k1")}]
  /\ now = StartTime
  /\ cards = [c \in CardIds |->
                IF c = "c1"
                THEN CreatedCard("u1", Update(FullBody,
                                   [imageUrl |-> PlainPath,
                                    imageEncrypted |-> FALSE]),
                                 env, StoreIVs, now)
                ELSE IF c = "c2" THEN CreatedCard("u2", FullBody, env, StoreIVs, now)
                ELSE NoDoc]
  /\ folders = [f \in FolderIds |-> NewFolder("u1", now)]
  /\ nextToken = 1
  /\ pc = [p \in Procs |-> "idle"]
  /\ local = [p \in Procs |-> Idle]
  /\ resp = NoResponse
  /\ issued = {}
  /\ revoked = {}
  /\ bucket = [o \in ObjectPaths |->
                 IF o = PlainPath THEN Object(TheImage) ELSE NoObject]
  /\ call = NoCall

NextStore ==
  \/ AllIdle /\ \E uid \in Users, body \in StoreBodies :
                  CreateCard(uid, "c3", body, StoreIVs)
  \/ AllIdle /\ \E uid \in Users, id \in StoreCards, body \in StoreBodies :
                  UpdateCard(uid, id, body, StoreIVs)
  \/ AllIdle /\ \E uid \in Users, id \in StoreCards : DeleteCvv(uid, id)
  \/ AllIdle /\ \E uid \in Users, id \in StoreCards : DeleteCard(uid, id)
  \/ AllIdle /\ \E id \in StoreCards, extractedData \in StoreExtractions :
                  ExtractUpdate(id, extractedData)
  \/ AllIdle /\ \E uid \in Users, f \in FolderIds, cardId \in CardIds :
                  AddCardRead(1, uid, f, cardId)
  \/ AddCardWrite(1)
  \/ AllIdle /\ \E uid \in Users, f \in FolderIds, cardId \in CardIds :
                  RemoveCardRead(1, uid, f, cardId)
  \/ RemoveCardWrite(1)

SpecStore == InitStore /\ [][NextStore]_vars

----------------------------------------------------------------------------
(* Properties *)

History(f) == Get(folders[f], "shareHistory", <<>>)

Active(h) == {i \in 1 .. Len(h) : h[i].isActive}

\* C1: under any interleaving of share (GenerateLink) and revoke requests on
\* a folder, each one read and one atomic update, at most one shareHistory
\* entry is active in every reachable state.
C1_AtMostOneActive ==
  \A f \in FolderIds : Cardinality(Active(History(f))) <= 1

\* two share requests raced (both read before either wrote, so one entry
\* was lost) and one entry is active
C1_Witness ==
  \E f \in FolderIds :
    /\ Cardinality(issued) = 2
    /\ Len(History(f)) = 1
    /\ Cardinality(Active(History(f))) = 1

\* C2: on both public endpoints a token that was active and has been revoked
\* (by a revoke or by a later share) gets the response, status and body, of a
\* token that was never issued.
C2_RevokedAsNeverIssued ==
  \A token \in revoked :
    /\ PublicFolderView(folders, cards, token, now, env)
         = PublicFolderView(folders, cards, NeverIssued, now, env)
    /\ \A cardId \in CardIds, decrypted \in ImageOutcomes :
         PublicImage(folders, cards, token, cardId, now, env, decrypted)
           = PublicImage(folders, cards, NeverIssued, cardId, now, env, decrypted)

\* one token was replaced by a later share, the later one revoked, and the
\* history holds both, the first with an expiry that has passed
C2_Witness ==
  \E f \in FolderIds :
    /\ Cardinality(revoked) = 2
    /\ ~folders[f].isPublic
    /\ Len(History(f)) = 2
    /\ History(f)[1].expiresAt # Null /\ History(f)[1].expiresAt < now

\* C3: once a token has been revoked or replaced, no later share, revoke,
\* add-card or remove-card makes the public view serve it again (it stays
\* 404); and a share's new token is served from the moment its update lands.
C3_RevokedStaysNotFound ==
  [][/\ \A token \in revoked' :
          PublicFolderView(folders', cards', token, now', env').status = 404
     /\ ShareWrite(1) =>
          PublicFolderView(folders', cards', local[1].shareToken, now', env').status
            = IF local[1].expiresAt # Null /\ local[1].expiresAt < now'
              THEN 410 ELSE 200]_vars

\* revoke, then share again: the new token is served, the first is not
C3_Witness ==
  \E f \in FolderIds :
    /\ Len(History(f)) = 2
    /\ History(f)[1].shareToken \in revoked
    /\ folders[f].isPublic
    /\ resp = [status |-> 404, error |-> NotFound]
    /\ PublicFolderView(folders, cards, History(f)[2].shareToken, now, env).status = 200
    /\ PublicFolderView(folders, cards, History(f)[1].shareToken, now, env).status = 404

\* C4 as stated: the folder's shareToken and expiresAt are those of the
\* active history entry, and both null when no entry is active.
C4_MirrorOrNull ==
  \A f \in FolderIds :
    folders[f].exists =>
      IF Active(History(f)) = {}
      THEN folders[f].shareToken = Null /\ folders[f].expiresAt = Null
      ELSE \E i \in Active(History(f)) :
             /\ folders[f].shareToken = History(f)[i].shareToken
             /\ folders[f].expiresAt = History(f)[i].expiresAt

\* C4 (amended): while isPublic is true the folder's shareToken and expiresAt
\* are those of the one active history entry; they are null only until the
\* first share; a revoke sets isPublic to false, leaves no entry active and
\* leaves shareToken and expiresAt as they were instead of clearing them.
C4_MirrorWhilePublic ==
  /\ [](\A f \in FolderIds :
          folders[f].exists =>
            /\ folders[f].isPublic =>
                 /\ Cardinality(Active(History(f))) = 1
                 /\ \A i \in Active(History(f)) :
                      /\ folders[f].shareToken = History(f)[i].shareToken
                      /\ folders[f].expiresAt = History(f)[i].expiresAt
            /\ History(f) = <<>> =>
                 folders[f].shareToken = Null /\ folders[f].expiresAt = Null
            /\ History(f) # <<>> => folders[f].shareToken # Null)
  /\ [][\A p \in Procs : RevokeWrite(p) =>
          LET f == local[p].f
          IN /\ ~folders'[f].isPublic
             /\ Active(Get(folders'[f], "shareHistory", <<>>)) = {}
             /\ folders'[f].shareToken = folders[f].shareToken
             /\ folders'[f].expiresAt = folders[f].expiresAt]_vars

\* a revoke has succeeded on a link that had an expiry
C4_Witness ==
  \E f \in FolderIds :
    /\ resp = [status |-> 200, message |-> "Share link revoked successfully"]
    /\ ~folders[f].isPublic
    /\ Active(History(f)) = {}
    /\ folders[f].shareToken # Null
    /\ folders[f].expiresAt # Null

\* C5: a share on a folder with an active entry submits one update in which
\* that entry is inactive with a non-null revokedAt and the appended entry,
\* carrying the new token, is the only active one.
C5_ShareRevokesPrevious ==
  [][ShareWrite(1) =>
       LET f == local[1].f
           before == History(f)
           after == Get(folders'[f], "shareHistory", <<>>)
       IN /\ Len(after) = Len(before) + 1
          /\ Active(after) = {Len(after)}
          /\ after[Len(after)].shareToken = local[1].shareToken
          /\ after[Len(after)].revokedAt = Null
          /\ \A i \in Active(before) :
               ~after[i].isActive /\ after[i].revokedAt # Null]_vars

\* two shares in a row: the second entry is active, the first was revoked
\* by the second share
C5_Witness ==
  \E f \in FolderIds :
    /\ Len(History(f)) = 2
    /\ History(f)[2].isActive
    /\ ~History(f)[1].isActive
    /\ History(f)[1].revokedAt = History(f)[2].createdAt
    /\ resp.status = 200 /\ Has(resp, "shareToken")

\* C6: for a token that resolves to a folder, both public endpoints answer
\* 410 "expired", without card or image data, exactly when the folder's
\* expiresAt is non-null and strictly before the current time; a null expiry
\* is never expired and at now = expiresAt the link is still served.
C6_ExpiredExactlyWhenPast ==
  \A f \in FolderIds :
    (folders[f].exists /\ folders[f].isPublic) =>
      LET token == folders[f].shareToken
          past == folders[f].expiresAt # Null /\ folders[f].expiresAt < now
          view == PublicFolderView(folders, cards, token, now, env)
      IN /\ past => view = [status |-> 410, error |-> Expired]
         /\ ~past => view.status = 200
         /\ \A cardId \in CardIds, decrypted \in ImageOutcomes :
              LET image == PublicImage(folders, cards, token, cardId, now, env, decrypted)
              IN /\ past => image = [status |-> 410, error |-> Expired]
                 /\ ~past => /\ image.status # 410
                             /\ image # [status |-> 404, error |-> NotFound]

\* the clock stands exactly at the expiry of a live link, and the public
\* view has just been served
C6_Witness ==
  \E f \in FolderIds :
    /\ folders[f].exists /\ folders[f].isPublic
    /\ folders[f].expiresAt = now
    /\ resp.status = 200 /\ Has(resp, "cards") /\ resp.cardCount >= 1

\* C7: a share on a folder whose member list is empty is rejected with an
\* error and is over without an update: the folder, its history, isPublic,
\* shareToken and expiresAt stay as they were and no token is issued.
C7_EmptyFolderRejected ==
  [][\A uid \in Users, f \in FolderIds, expiresIn \in DurationSpecs :
       (/\ ShareRead(1, uid, f, expiresIn)
        /\ folders[f].exists /\ folders[f].userId = uid
        /\ Len(Get(folders[f], "cardIds", <<>>)) = 0)
       => /\ resp' = [status |-> 400,
                      error |-> "Cannot share empty folder. Add cards first."]
          /\ pc'[1] = "idle"
          /\ folders' = folders
          /\ issued' = issued]_vars

\* a share was rejected on a folder that had been shared and then emptied
C7_Witness ==
  \E f \in FolderIds :
    /\ resp = [status |-> 400,
               error |-> "Cannot share empty folder. Add cards first."]
    /\ folders[f].exists /\ Len(folders[f].cardIds) = 0
    /\ folders[f].isPublic /\ Len(History(f)) = 1 /\ AllIdle

\* C8: a folder whose link is active (isPublic with a token that resolves)
\* has at least one member, in every state reachable through create-folder,
\* add-card, remove-card, share and revoke.
C8_SharedFolderHasMember ==
  \A f \in FolderIds :
    (folders[f].exists /\ folders[f].isPublic
       /\ f \in FindByToken(folders, folders[f].shareToken))
    => Len(Get(folders[f], "cardIds", <<>>)) >= 1

\* C9: a revoke on a folder with no active link (never shared, or already
\* revoked) is rejected with an error and is over without an update, so the
\* folder and every revokedAt stay as they were.
C9_RevokeWithoutLinkRejected ==
  [][\A uid \in Users, f \in FolderIds :
       (/\ RevokeRead(1, uid, f)
        /\ folders[f].exists /\ folders[f].userId = uid
        /\ Active(History(f)) = {})
       => /\ resp' = [status |-> 400, error |-> "No active share link to revoke"]
          /\ pc'[1] = "idle"
          /\ folders' = folders]_vars

\* a second revoke right after a successful one was rejected
C9_Witness ==
  \E f \in FolderIds :
    /\ resp = [status |-> 400, error |-> "No active share link to revoke"]
    /\ Len(History(f)) = 1
    /\ History(f)[1].revokedAt # Null
    /\ ~folders[f].isPublic /\ AllIdle

\* C10: in a sequential run shareHistory is append-only: entries are never
\* removed or reordered, an entry's shareToken, createdAt and expiresAt never
\* change, isActive only goes from true to false, revokedAt only from null
\* to a time, and the length is the number of successful shares.
C10_HistoryAppendOnly ==
  /\ [](\A f \in FolderIds : Len(History(f)) = Cardinality(issued))
  /\ [][\A f \in FolderIds :
          LET before == History(f)
              after == Get(folders'[f], "shareHistory", <<>>)
          IN /\ Len(after) >= Len(before)
             /\ \A i \in 1 .. Len(before) :
                  /\ after[i].shareToken = before[i].shareToken
                  /\ after[i].createdAt = before[i].createdAt
                  /\ after[i].expiresAt = before[i].expiresAt
                  /\ ~before[i].isActive => ~after[i].isActive
                  /\ before[i].revokedAt # Null =>
                       after[i].revokedAt = before[i].revokedAt]_vars

\* share, revoke, and after a clock tick share again: the first entry keeps
\* the revocation time the revoke gave it
C10_Witness ==
  \E f \in FolderIds :
    /\ Len(History(f)) = 2
    /\ History(f)[1].revokedAt # Null
    /\ History(f)[1].revokedAt < History(f)[2].createdAt
    /\ History(f)[2].isActive

\* C11: also when share requests interleave (both read the folder before
\* either writes it), shareHistory holds an entry for every token a share
\* request has returned to its caller.
C11_EveryIssuedTokenInHistory ==
  \A f \in FolderIds :
    \A t \in issued :
      \E i \in 1 .. Len(History(f)) : History(f)[i].shareToken = t

\* C12: an add-card update keeps every id the member list held and adds its
\* own, so two requests that interleave both take effect, and the member list
\* never holds the same id twice.
C12_ConcurrentAddsBothLand ==
  /\ [](\A f \in FolderIds :
          LET ids == Get(folders[f], "cardIds", <<>>)
          IN \A i, j \in 1 .. Len(ids) : ids[i] = ids[j] => i = j)
  /\ [][\A p \in Procs :
          AddCardWrite(p) =>
            LET f == local[p].f
                before == Get(folders[f], "cardIds", <<>>)
                after == Get(folders'[f], "cardIds", <<>>)
            IN /\ Includes(after, local[p].cardId)
               /\ \A c \in CardIds : Includes(before, c) => Includes(after, c)]_vars

\* a request that passed its not-yet-a-member check is about to write although
\* a racing request has added the same card, and another card, in between
C12_Witness ==
  \E p \in Procs :
    /\ pc[p] = "addCard"
    /\ LET ids == Get(folders[local[p].f], "cardIds", <<>>)
       IN Len(ids) = 2 /\ Includes(ids, local[p].cardId)

\* C13: after any create, update, CVV-delete and extraction-update requests,
\* each stored card's cardNumber, cvv and expiryDate has its `_encrypted`
\* flag true exactly when the stored value is field-cipher ciphertext.
C13_FlagIffCiphertext ==
  \A c \in CardIds :
    cards[c].exists =>
      \A f \in Sensitive : FlagTruthy(cards[c], f) <=> IsCiphertext(cards[c], f)

\* encrypting some sensitive attribute the body gives fails
SomeFieldFails(body, e, ivs) ==
  \E f \in Sensitive : FieldTruthy(body, f) /\ encrypt(body[f], e, ivs[f]).raised

\* C14: when encryption is on and encrypting a sensitive attribute of a
\* create or update body fails, the request answers 500 and the card store
\* is as it was; a request that does write has stored every sensitive
\* attribute its body gave in encrypted form, flag set.
C14_FailedEncryptionWritesNothing ==
  [][\A uid \in Users, id \in NewCardIds, body \in CardBodies,
        ivs \in RequestIVs :
       /\ isEncryptionEnabled(env)
       /\ \/ CreateCard(uid, id, body, ivs)
          \/ CardAccess(uid, id).status = 200 /\ UpdateCard(uid, id, body, ivs)
       => IF SomeFieldFails(body, env, ivs)
          THEN resp' = EncryptionFailed /\ cards' = cards
          ELSE \A f \in Sensitive :
                 FieldTruthy(body, f) =>
                   /\ FlagTruthy(cards'[id], f)
                   /\ cards'[id][f] # body[f]]_vars

\* with a valid key, a request failed on its cvv and the stored record, whose
\* cardNumber an earlier request encrypted, is still there
C14_Witness ==
  /\ resp = EncryptionFailed
  /\ env.ENCRYPTION_KEY = KeySetting("k1")
  /\ cards["c1"].exists
  /\ IsCiphertext(cards["c1"], "cardNumber")
  /\ ~Has(cards["c1"], "cvv")

\* a stored sensitive value that is readable as it stands
IsPlaintext(doc, field) ==
  Has(doc, field) /\ doc[field].t \in {"string", "number"} /\ Truthy(doc[field])

\* C15: with ENCRYPTION_KEY unset or not 32 bytes long, no create or update
\* request writes a card whose non-empty cardNumber, cvv or expiryDate is
\* plaintext.
C15_NoPlaintextWithoutKey ==
  [][\A uid \in Users, id \in NewCardIds, body \in CardBodies,
        ivs \in RequestIVs :
       /\ getEncryptionKey(env).raised
       /\ CreateCard(uid, id, body, ivs) \/ UpdateCard(uid, id, body, ivs)
       /\ cards' # cards
       => \A f \in Sensitive : ~IsPlaintext(cards'[id], f)]_vars

\* an attribute encryptCardData stored as a token
WasEncrypted(f) == f \in call.damaged \/ IsCiphertext(call.stored, f)

\* a stored attribute decryptCardData will not get back: damaged in the
\* store, or encrypted under a key the process no longer has
Undecryptable(f) ==
  /\ WasEncrypted(f)
  /\ f \in call.damaged \/ env.ENCRYPTION_KEY # call.key

\* C16: decryptCardData never raises; an attribute whose decryption fails
\* comes back null, every other encrypted attribute comes back decrypted,
\* and every other attribute comes back as stored.
C16_DecryptDegradesPerField ==
  call.fn = "decryptCardData" =>
    /\ ~call.result.raised
    /\ \A f \in Sensitive :
         WasEncrypted(f) =>
           call.result.value[f] =
             IF Undecryptable(f) THEN JsNull ELSE call.record[f]
    /\ \A k \in DOMAIN call.stored :
         k \notin Flags /\ ~WasEncrypted(k) =>
           /\ Has(call.result.value, k)
           /\ call.result.value[k] = call.stored[k]

\* the cvv was damaged in the store; the read returns the record with cvv
\* null, cardNumber decrypted and cardName as it was
C16_Witness ==
  /\ call.fn = "decryptCardData"
  /\ call.damaged = {"cvv"}
  /\ env.ENCRYPTION_KEY = call.key
  /\ IsCiphertext(call.stored, "cardNumber")
  /\ ~call.result.raised
  /\ call.result.value["cvv"] = JsNull
  /\ call.result.value["cardNumber"] = Str(<<"4">>)
  /\ call.result.value["cardName"] = Str(<<"n">>)

\* C17: for a record whose cardNumber, cvv and expiryDate are each absent or
\* a non-empty string, whitespace-only included, decryptCardData of
\* encryptCardData of the record has the record's three values and none of
\* the three flags.
C17_RecordRoundTrip ==
  call.fn = "decryptCardData" /\ call.damaged = {}
    /\ env.ENCRYPTION_KEY = call.key =>
      /\ ~call.result.raised
      /\ \A f \in Sensitive :
           /\ Has(call.result.value, f) <=> Has(call.record, f)
           /\ Has(call.record, f) => call.result.value[f] = call.record[f]
           /\ ~Has(call.result.value, FlagOf(f))

\* decrypt was given the token encrypt returned, under the same key
RoundTrip ==
  /\ call.fn = "decrypt"
  /\ call.tampered = "no"
  /\ env.ENCRYPTION_KEY = call.key

\* C18 as stated: for every non-empty plaintext P, whitespace characters
\* included, and a fixed valid key, decrypt(encrypt(P)) equals P.
C18_RoundTripNonEmpty ==
  RoundTrip /\ call.plaintext.s # <<>> => call.result = Return(call.plaintext)

WellFormed(s) == \A i \in 1 .. Len(s) : s[i] # LoneSurrogate

\* C18: for every plaintext P that has a character other than whitespace and
\* no unpaired surrogate, and a fixed valid key, decrypt(encrypt(P)) equals
\* P; for a whitespace-only P encrypt returns null and so does decrypt.
C18_RoundTripNonBlank ==
  RoundTrip =>
    IF Trim(call.plaintext.s) = <<>> THEN call.result = Return(JsNull)
    ELSE WellFormed(call.plaintext.s) => call.result = Return(call.plaintext)

\* a plaintext with a trailing space came back character for character
C18_Witness ==
  /\ RoundTrip
  /\ call.plaintext = Str(<<"4", Space>>)
  /\ call.result = Return(call.plaintext)

\* C19: decrypt of a token whose ciphertext or tag segment is not what
\* encrypt produced, or under another key than the encrypting one, raises
\* and returns no value.
C19_DecryptFailsClosed ==
  /\ call.fn = "decrypt"
  /\ call.token.t = "token"
  /\ call.tampered # "no" \/ env.ENCRYPTION_KEY # call.key
  => call.result.raised

\* the object at the encrypted path is a whole encryption of the original
EncryptedCopyStored ==
  LET o == bucket[EncryptedPath(call.filePath)]
  IN /\ o.exists
     /\ Len(o.content) = 3
     /\ o.content[3].pt = call.original.content
     /\ o.content[2] = GcmAuthTag(o.content[3].key, o.content[1], o.content[3])

\* C20: encryptStoredImage deletes the plaintext object only once the
\* encrypted object is written; when the existence check, the download, the
\* encryption or the upload fails the plaintext object is still there; and
\* at every step, a stop between two steps included, the plaintext object
\* or the whole encrypted object is in the bucket.
C20_WriteThenDelete ==
  /\ [](call.original.exists =>
          /\ bucket[call.filePath].exists \/ EncryptedCopyStored
          /\ pc[1] = "failed" /\ local[1].at # "delete" =>
               bucket[call.filePath] = call.original)
  /\ [][bucket[call.filePath].exists /\ ~bucket'[call.filePath].exists =>
          EncryptedCopyStored]_vars

\* the process stopped after the upload and before the delete: both objects
\* are in the bucket, the encrypted one in place of a stale one
C20_Witness ==
  /\ pc[1] = "crashed"
  /\ local[1].at = "delete"
  /\ bucket[call.filePath] = call.original
  /\ EncryptedCopyStored

\* card c's image is flagged encrypted and serving it fails: the key is
\* unset or unusable, or getDecryptedImageBuffer throws
ImageUnavailable(c, ok) ==
  /\ cards[c].exists
  /\ Has(cards[c], "imageUrl")
  /\ Get(cards[c], "imageEncrypted", FALSE)
  /\ ~isEncryptionEnabled(env) \/ DecryptedImageOf(c, ok).raised

\* C21: for an image flagged encrypted, when getDecryptedImageBuffer fails
\* (object missing, blob shorter than IV and tag, tag mismatch, wrong or
\* missing key) both image endpoints answer with an error; neither ever
\* redirects to or names the stored location of such an image, and bytes
\* are sent only when they are the decrypted image.
C21_ImageFailsClosed ==
  \A c \in CardIds, ok \in BOOLEAN :
    (cards[c].exists /\ Has(cards[c], "imageUrl")
       /\ Get(cards[c], "imageEncrypted", FALSE)) =>
      /\ \A token \in ServeTokens :
           LET r == PublicImage(folders, cards, token, c, now, env,
                                DecryptedImageOf(c, ok))
           IN /\ ImageUnavailable(c, ok) => r.status >= 400
              /\ r.status # 302
              /\ r.status = 200 => r.image = call.image
      /\ \A uid \in Users :
           LET r == OwnerImage(cards, uid, c, env, DecryptedImageOf(c, ok))
           IN /\ ImageUnavailable(c, ok) => r.status >= 400
              /\ ~Has(r, "imageUrl")
              /\ r.status = 200 => r.image = call.image

\* with a valid key, the stored blob of member c1 does not pass the tag
\* check and the public image request has been answered with the error
C21_Witness ==
  /\ resp = [status |-> 500, error |-> "Failed to decrypt image"]
  /\ env.ENCRYPTION_KEY = KeySetting("k1")
  /\ bucket[EncryptedPath(PlainPath)].exists
  /\ Len(bucket[EncryptedPath(PlainPath)].content) = 3
  /\ ImageUnavailable("c1", TRUE)
  /\ PublicImage(folders, cards, 1, "c1", now, env, DecryptedImageOf("c1", TRUE)) = resp

\* the fields of a card document the public may not see
InternalFields ==
  {"userId", "imageEncrypted"} \cup {FlagOf(f) : f \in Sensitive}

\* C22: every card object the public folder view returns omits userId,
\* cardNumber_encrypted, cvv_encrypted, expiryDate_encrypted and
\* imageEncrypted.
C22_PublicCardOmitsInternals ==
  \A token \in ServeTokens :
    LET view == PublicFolderView(folders, cards, token, now, env)
    IN Has(view, "cards") =>
         \A c \in DOMAIN view.cards :
           DOMAIN view.cards[c] \cap InternalFields = {}

\* card c has an image that is flagged encrypted
ImageFlaggedEncrypted(c) ==
  /\ cards[c].exists
  /\ Has(cards[c], "imageUrl")
  /\ Get(cards[c], "imageEncrypted", FALSE)

\* the response r carries the storage path as an image reference or as the
\* target of a redirect
CarriesPath(r, path) ==
  \/ Has(r, "location") /\ r.location = path
  \/ Has(r, "cards") /\ \E c \in DOMAIN r.cards : r.cards[c].imageUrl = <<path>>

\* C23: for every member whose image is flagged encrypted the public view
\* gives the decryption endpoint of that token and card as image reference,
\* and no response of the public view or the public image endpoint carries
\* the stored path of an image flagged encrypted.
C23_EncryptedImageByEndpoint ==
  \A token \in ServeTokens :
    LET view == PublicFolderView(folders, cards, token, now, env)
    IN /\ Has(view, "cards") =>
            \A c \in DOMAIN view.cards :
              ImageFlaggedEncrypted(c) =>
                view.cards[c].imageUrl = ImageEndpoint(token, c)
       /\ \A s \in CardIds :
            ImageFlaggedEncrypted(s) =>
              /\ ~CarriesPath(view, cards[s].imageUrl)
              /\ \A c \in CardIds, ok \in BOOLEAN :
                   ~CarriesPath(PublicImage(folders, cards, token, c, now, env,
                                            DecryptedImageOf(c, ok)),
                                cards[s].imageUrl)

\* the view of the shared folder has been returned with member c1's image,
\* flagged encrypted, referred to by the endpoint
C23_Witness ==
  /\ ImageFlaggedEncrypted("c1")
  /\ resp.status = 200
  /\ Has(resp, "cards")
  /\ resp.cards["c1"].imageUrl = ImageEndpoint(1, "c1")

\* the duration is a decimal count followed by the unit letter
CountOf(duration, unit) ==
  IF /\ Len(duration) >= 2
     /\ duration[Len(duration)] = unit
     /\ AllDigits(SubSeq(duration, 1, Len(duration) - 1))
  THEN DigitsValue(SubSeq(duration, 1, Len(duration) - 1))
  ELSE 0

\* 'Nh' and 'Nd' with N > 0 give now + N hours or days, everything else null
ExpiryReference(duration, t) ==
  IF CountOf(duration, "h") > 0 THEN t + CountOf(duration, "h") * MsPerHour
  ELSE IF CountOf(duration, "d") > 0 THEN t + CountOf(duration, "d") * MsPerDay
  ELSE Null

\* C24: calculateExpiry returns now + N hours for 'Nh' and now + N days for
\* 'Nd' with N > 0, null for 'never' and for an absent duration, and null
\* for every other duration, '0h', '0d', '-5h', '12x' and 'abc' among them.
C24_ExpiryAgreesWithReference ==
  Has(resp, "value") => resp.value = ExpiryReference(call.duration, now)

\* what a CVV deletion takes away, and what the claim says it keeps
CvvFields == {"cvv", "cvv_encrypted", "cvvStoredAt"}
KeptFields ==
  {"cardNumber", "cardNumber_encrypted", "expiryDate", "expiryDate_encrypted",
   "userId", "imageUrl", "imageEncrypted", "exists"}

\* C25: a CVV deletion by the owner removes cvv, cvv_encrypted and
\* cvvStoredAt in one update and leaves cardNumber, expiryDate, their
\* flags, the owner and the image reference of the record, and every other
\* record, as they were.
C25_CvvDeleteFrame ==
  [][\A uid \in Users, id \in StoreCards :
       (DeleteCvv(uid, id) /\ CardAccess(uid, id).status = 200) =>
         /\ \A k \in CvvFields : ~Has(cards'[id], k)
         /\ \A k \in KeptFields :
              /\ Has(cards'[id], k) = Has(cards[id], k)
              /\ Has(cards[id], k) => cards'[id][k] = cards[id][k]
         /\ \A other \in CardIds \ {id} : cards'[other] = cards[other]
         /\ folders' = folders /\ bucket' = bucket]_vars

\* the CVV of c1 has been deleted: number, expiry date, owner and image
\* reference are there, the CVV and its timestamp are not
C25_Witness ==
  /\ resp = [status |-> 200, message |-> "CVV deleted successfully"]
  /\ \A k \in {"cardNumber", "expiryDate", "userId", "imageUrl"} : Has(cards["c1"], k)
  /\ \A k \in CvvFields : ~Has(cards["c1"], k)
  /\ cards["c2"].exists /\ Has(cards["c2"], "cvv")

\* C29: every id in a folder's member list refers to an existing card whose
\* owner is the folder's owner.
C29_MembersExistAndBelong ==
  \A f \in FolderIds :
    folders[f].exists =>
      \A i \in 1 .. Len(Get(folders[f], "cardIds", <<>>)) :
        LET c == folders[f].cardIds[i]
        IN cards[c].exists /\ cards[c].userId = folders[f].userId

\* C30: a request of a user who is not the owner of a stored card (update,
\* CVV deletion, deletion, or extraction naming the card) leaves the card
\* as it was, and no request changes the owner of a stored card.
C30_OnlyOwnerModifies ==
  [][\A id \in StoreCards :
       cards[id].exists =>
         /\ \A uid \in Users \ {cards[id].userId} :
              /\ \A body \in StoreBodies :
                   UpdateCard(uid, id, body, StoreIVs) => cards'[id] = cards[id]
              /\ DeleteCvv(uid, id) => cards'[id] = cards[id]
              /\ DeleteCard(uid, id) => cards'[id] = cards[id]
              /\ \A extractedData \in StoreExtractions :
                   ExtractUpdate(id, extractedData) => cards'[id] = cards[id]
         /\ cards'[id].exists => cards'[id].userId = cards[id].userId]_vars

\* isPublic is true exactly when one entry of the history is active, and
\* then that entry carries the folder's shareToken and expiresAt
PublicMirrorsActive(f) ==
  /\ folders[f].isPublic <=> Cardinality(Active(History(f))) = 1
  /\ folders[f].isPublic =>
       \A i \in Active(History(f)) :
         /\ History(f)[i].shareToken = folders[f].shareToken
         /\ History(f)[i].expiresAt = folders[f].expiresAt

\* C27: however share and revoke requests interleave, isPublic is true
\* exactly when one shareHistory entry is active, and then that entry's
\* shareToken and expiresAt are the folder's; a step of the clock, past an
\* expiry or not, changes no field of a folder.
C27_PublicIffOneActive ==
  /\ [](\A f \in FolderIds : folders[f].exists => PublicMirrorsActive(f))
  /\ [][now' # now => folders' = folders]_vars

\* two share requests have interleaved, the clock has passed the expiry of
\* the link that is left, and the folder is public with its entry active
C27_Witness ==
  \E f \in FolderIds :
    /\ folders[f].exists /\ folders[f].isPublic
    /\ Cardinality(issued) = 2
    /\ Len(History(f)) = 1
    /\ folders[f].expiresAt # Null /\ folders[f].expiresAt < now
    /\ PublicMirrorsActive(f)

\* token is the current token of a folder that has public sharing on
CurrentToken(token) ==
  \E f \in FolderIds :
    folders[f].exists /\ folders[f].isPublic /\ folders[f].shareToken = token

\* the history of some folder records for the token an expiry that has passed
RecordedExpiryPassed(token) ==
  \E f \in FolderIds : \E i \in 1 .. Len(History(f)) :
    /\ History(f)[i].shareToken = token
    /\ History(f)[i].expiresAt # Null /\ History(f)[i].expiresAt < now

\* C26: the public endpoints answer Expired only for the current token of a
\* folder with public sharing on; a token that was revoked or replaced gets
\* NotFound, also when the expiry recorded for it has passed.
C26_RevocationDominatesExpiry ==
  \A token \in Tokens \cup {NeverIssued} :
    LET view == PublicFolderView(folders, cards, token, now, env)
    IN /\ view.status = 410 => CurrentToken(token)
       /\ token \in revoked => view = [status |-> 404, error |-> NotFound]
       /\ \A cardId \in CardIds, decrypted \in ImageOutcomes :
            LET image == PublicImage(folders, cards, token, cardId, now, env,
                                     decrypted)
            IN /\ image.status = 410 => CurrentToken(token)
               /\ token \in revoked => image = [status |-> 404, error |-> NotFound]

\* the link was revoked and the expiry recorded for it has passed; a public
\* request has been answered NotFound
C26_Witness ==
  /\ resp = [status |-> 404, error |-> NotFound]
  /\ \E token \in revoked : RecordedExpiryPassed(token) /\ ~CurrentToken(token)
  /\ \A f \in FolderIds : folders[f].exists /\ ~folders[f].isPublic

====
